---- MODULE Spec2Model ----
(***************************************************************************)
(* Keystroke parsing, keystroke matching and chord matching of gpui:       *)
(*   crates/gpui/src/platform/keycodes.rs   KeyCode, KeyPosition           *)
(*   crates/gpui/src/platform/keystroke.rs  Keystroke, Modifiers           *)
(*   crates/gpui/src/keymap/binding.rs      KeyBinding                     *)
(*   crates/gpui/src/platform/windows/events.rs  key-down construction     *)
(*   crates/gpui/src/platform/windows/keyboard.rs  to_vim_keystroke        *)
(*   crates/gpui/src/platform/keyboard_mapper.rs   KeyboardMapperManager   *)
(*                                                                         *)
(* Rust values are encoded as follows.                                     *)
(*   String          a TLA+ string (ASCII only)                            *)
(*   Option<T>       a sequence: << >> is None, <<v>> is Some(v)           *)
(*   Result<T, E>    [ok |-> TRUE, val |-> v]  or  [ok |-> FALSE]          *)
(*   KeyCode         [code |-> name of the variant, pos |-> KeyPosition],  *)
(*                   pos = "NoPos" for the variants without a position     *)
(***************************************************************************)
EXTENDS Integers, Sequences, FiniteSets, TLC

VARIABLES
    components,   \* ParseSpec: the `-`-separated tokens the keystroke text is written from
    source,       \* ParseSpec: the text handed to Keystroke::parse
    parsed,       \* ParseSpec: Option of the Result of Keystroke::parse(source)
    self,         \* MatchSpec: the typed keystroke
    target,       \* MatchSpec: the bound keystroke
    matches,      \* MatchSpec: Option of the bool self.should_match(target)
    keymap,       \* Spec: the bindings KeyBinding::load has returned so far
    typed,        \* Spec: the keystrokes typed so far, in arrival order
    results,      \* Spec: results[i] is Option of keymap[i].match_keystrokes(typed)
    produced,     \* ImeSpec: Option of the keystroke that parse or a key-down produced
    producer,     \* ImeSpec: "parse" or "keydown", the producer of produced; "none" before
    simulated,    \* ImeSpec: the results of the with_simulated_ime calls made in a row
    keystroke,    \* VimSpec: the keystroke handed to to_vim_keystroke
    vkey_scan,    \* VimSpec: what VkKeyScanW answers for the key under the active layout
    to_unicode,   \* VimSpec: what ToUnicode writes for the virtual key and shift state
    vim_keystroke,  \* VimSpec: Option of the keystroke to_vim_keystroke returned
    current_layout, \* MapperSpec: the identifier keyboard_layout() returns
    mapper,       \* MapperSpec: KeyboardMapperManager.mapper, identifier -> KeyboardMapper
    builds,       \* MapperSpec: the number of KeyboardMapper::new() calls made so far
    registered,   \* MapperSpec: the identifiers new() and update() were given, in call order
    lookup,       \* MapperSpec: Option of the last get_mapper call, [layout, result]
    key_stroke,   \* MacSpec: the keystroke handed to to_native_keystroke, [code, label]
    KEYBOARD_LAYOUT, \* MacSpec: the layout retrieve_current_keboard_layout() found
    key_string,   \* MacSpec: what key_string_from_keycode answers for the scan code
    native,       \* MacSpec: "none", then "returned" or "panicked", how the call ended
    term_modifiers, \* TermSpec: the modifier names the keystroke text is written with
    term_key,     \* TermSpec: the key token the keystroke text ends with
    term_keystroke, \* TermSpec: Option of the Result of Keystroke::parse of the text
    term_mode,    \* TermSpec: the TermMode, the set of its flags
    term_alt_is_meta, \* TermSpec: the alt_is_meta setting
    esc_str,      \* TermSpec: Option of what to_esc_str returned (an Option itself)
    modifier_code_result, \* TermSpec: Option of what modifier_code returned
    hash_self,    \* HashSpec: Option of the key code stored or compared first
    hash_other,   \* HashSpec: Option of the key code compared with it and looked up
    code_to_char, \* HashSpec: KeyboardMapper.code_to_char, key code -> String
    eq_result,    \* HashSpec: Option of the bool hash_self == hash_other
    hash_result,  \* HashSpec: Option of the pair of what the two key codes feed a hasher
    char_result,  \* HashSpec: Option of the pair of code_to_char() of the two key codes
    callbacks_input, \* WinSpec: state.callbacks.input, Option of the input callback
    input_handler, \* WinSpec: state.input_handler, Option of the text input handler
    last_keydown_handled, \* WinSpec: state.last_keydown_handled
    call_stack,   \* WinSpec: the dispatches whose input callback is executing, outermost first
    inserted_text, \* WinSpec: the texts replace_text_in_range was given, in order
    msg_log,      \* WinSpec: the messages whose handler has returned, in order of return
    dispatch_pc,  \* DispatcherSpec: per task, where the dispatch_after call of the task is
    duration_ms,  \* DispatcherSpec: per task, duration.as_millis() of the call
    timer_handle, \* DispatcherSpec: per task, the local `handle` CreateTimerQueueTimer fills
    raw_timer_handle, \* DispatcherSpec: per task, DelayedTask.raw_timer_handle
    runnable,     \* DispatcherSpec: per task, DelayedTask.runnable (Option; TRUE is the runnable)
    timer_pc,     \* DispatcherSpec: per task, where the timer or pool thread of the task is
    run_count,    \* DispatcherSpec: per task, how many times the runnable has run
    deleted_timer \* DispatcherSpec: per task, Option of the handle given to DeleteTimerQueueTimer

keymapVars == <<keymap, typed, results>>
parseVars == <<components, source, parsed>>
matchVars == <<self, target, matches>>
imeVars == <<produced, producer, simulated>>
vimVars == <<keystroke, vkey_scan, to_unicode, vim_keystroke>>
mapperVars == <<current_layout, mapper, builds, registered, lookup>>

macVars == <<key_stroke, KEYBOARD_LAYOUT, key_string, native>>

earlierVars == <<keymapVars, parseVars, matchVars, imeVars, vimVars, mapperVars>>
termVars == <<term_modifiers, term_key, term_keystroke, term_mode, term_alt_is_meta,
              esc_str, modifier_code_result>>
hashVars == <<hash_self, hash_other, code_to_char, eq_result, hash_result, char_result>>
winVars == <<callbacks_input, input_handler, last_keydown_handled, call_stack, inserted_text, msg_log>>
dispatcherVars == <<dispatch_pc, duration_ms, timer_handle, raw_timer_handle, runnable, timer_pc, run_count, deleted_timer>>
laterVars == <<macVars, termVars, hashVars, winVars, dispatcherVars>>

vars == <<keymapVars, parseVars, matchVars, imeVars, vimVars, mapperVars, laterVars>>

----------------------------------------------------------------------------
(* Bounds *)

MaxComponents == 3   \* tokens in one keystroke text (ParseSpec)
MaxBindings == 2     \* bindings in the keymap
MaxTyped == 3        \* keystrokes typed in a row

----------------------------------------------------------------------------
(* Option and Result *)

None == << >>
Some(v) == <<v>>
IsSome(o) == Len(o) = 1
Unwrap(o) == o[1]

Ok(v) == [ok |-> TRUE, val |-> v]
Err == [ok |-> FALSE]

----------------------------------------------------------------------------
(* The variables of a specification while another specification runs *)

ImeIdle == produced = None /\ producer = "none" /\ simulated = << >>

VimIdle == keystroke = None /\ vkey_scan = None /\ to_unicode = "" /\ vim_keystroke = None

MapperIdle ==
    /\ current_layout = "" /\ mapper = << >> /\ builds = 0 /\ registered = << >>
    /\ lookup = None

MacIdle == key_stroke = None /\ KEYBOARD_LAYOUT = "" /\ key_string = "" /\ native = "none"

TermIdle ==
    /\ term_modifiers = {} /\ term_key = "" /\ term_keystroke = None /\ term_mode = {}
    /\ term_alt_is_meta = FALSE /\ esc_str = None /\ modifier_code_result = None

HashIdle ==
    /\ hash_self = None /\ hash_other = None /\ code_to_char = << >> /\ eq_result = None
    /\ hash_result = None /\ char_result = None

WinIdle ==
    /\ callbacks_input = None /\ input_handler = None /\ last_keydown_handled = FALSE
    /\ call_stack = << >> /\ inserted_text = << >> /\ msg_log = << >>

DispatcherIdle ==
    /\ dispatch_pc = << >> /\ duration_ms = << >> /\ timer_handle = << >>
    /\ raw_timer_handle = << >> /\ runnable = << >> /\ timer_pc = << >>
    /\ run_count = << >> /\ deleted_timer = << >>

LaterIdle == MacIdle /\ TermIdle /\ HashIdle /\ WinIdle /\ DispatcherIdle

EarlierIdle ==
    /\ keymap = << >> /\ typed = << >> /\ results = << >>
    /\ components = << >> /\ source = "" /\ parsed = None
    /\ self = None /\ target = None /\ matches = None
    /\ ImeIdle /\ VimIdle /\ MapperIdle

----------------------------------------------------------------------------
(* Strings *)

CharAt(s, i) == SubSeq(s, i, i)

StartsWith(s, c) == Len(s) >= 1 /\ CharAt(s, 1) = c

EndsWith(s, c) == Len(s) >= 1 /\ CharAt(s, Len(s)) = c

\* Position of the one-character string c in s, 0 when absent.
IndexOf(c, s) ==
    IF \E i \in 1..Len(s) : CharAt(s, i) = c
    THEN CHOOSE i \in 1..Len(s) : CharAt(s, i) = c /\ \A j \in 1..(i - 1) : CharAt(s, j) # c
    ELSE 0

RECURSIVE SplitFrom(_, _, _, _)
SplitFrom(s, sep, i, cur) ==
    IF i > Len(s) THEN <<cur>>
    ELSE IF CharAt(s, i) = sep THEN <<cur>> \o SplitFrom(s, sep, i + 1, "")
    ELSE SplitFrom(s, sep, i + 1, cur \o CharAt(s, i))

\* str::split(sep): the pieces between the separators, empty pieces included.
Split(s, sep) == SplitFrom(s, sep, 1, "")

\* str::split_whitespace(): the non-empty pieces between runs of whitespace.
SplitWhitespace(s) == SelectSeq(Split(s, " "), LAMBDA piece : piece # "")

RECURSIVE Join(_, _)
\* The text written from its tokens: the tokens with sep between them.
Join(pieces, sep) ==
    IF Len(pieces) = 0 THEN ""
    ELSE IF Len(pieces) = 1 THEN pieces[1]
    ELSE pieces[1] \o sep \o Join(Tail(pieces), sep)

UpperLetters == "ABCDEFGHIJKLMNOPQRSTUVWXYZ"
LowerLetters == "abcdefghijklmnopqrstuvwxyz"

IsAsciiUppercase(ch) == IndexOf(ch, UpperLetters) > 0
IsAsciiLowercase(ch) == IndexOf(ch, LowerLetters) > 0
IsAsciiAlphabetic(ch) == IsAsciiUppercase(ch) \/ IsAsciiLowercase(ch)
ToLowercase(ch) ==
    IF IsAsciiUppercase(ch) THEN CharAt(LowerLetters, IndexOf(ch, UpperLetters)) ELSE ch

----------------------------------------------------------------------------
(* KeyPosition and KeyCode (keycodes.rs) *)

KeyPosition == {"Any", "Left", "Right"}

\* The equality a derived PartialEq would give: Any equals Any alone.
KeyPositionEq_derived(a, b) == a = b

\* impl PartialEq for KeyPosition
KeyPositionEq(a, b) ==
    IF (a = "Right" /\ b = "Left") \/ (a = "Left" /\ b = "Right") THEN FALSE ELSE TRUE

Key(name) == [code |-> name, pos |-> "NoPos"]
KeyAt(name, position) == [code |-> name, pos |-> position]

Unknown == Key("Unknown")

\* #[derive(PartialEq)] on the key code: same variant, and equal positions by
\* KeyPosition's own eq for the variants that carry one.
KeyCodeEq(a, b) ==
    /\ a.code = b.code
    /\ (a.pos # "NoPos" /\ b.pos # "NoPos") => KeyPositionEq(a.pos, b.pos)

BasicParseTable ==
    { <<"fn", Key("Function")>>, <<"cancel", Key("Cancel")>>,
      <<"backspace", Key("Backspace")>>, <<"tab", Key("Tab")>>, <<"enter", Key("Enter")>>,
      <<"shift", KeyAt("Shift", "Any")>>, <<"ctrl", KeyAt("Control", "Any")>>,
      <<"alt", KeyAt("Alt", "Any")>>, <<"capslock", Key("Capital")>>,
      <<"escape", Key("Escape")>>, <<"space", Key("Space")>>, <<"pageup", Key("PageUp")>>,
      <<"pagedown", Key("PageDown")>>, <<"end", Key("End")>>, <<"home", Key("Home")>>,
      <<"left", Key("Left")>>, <<"up", Key("Up")>>, <<"right", Key("Right")>>,
      <<"down", Key("Down")>>, <<"insert", Key("Insert")>>, <<"delete", Key("Delete")>>,
      <<"win", KeyAt("Platform", "Any")>>, <<"cmd", KeyAt("Platform", "Any")>>,
      <<"super", KeyAt("Platform", "Any")>>, <<"menu", Key("App")>>,
      <<"a", Key("A")>>, <<"b", Key("B")>>, <<"c", Key("C")>>, <<"d", Key("D")>>,
      <<"e", Key("E")>>, <<"f", Key("F")>>, <<"g", Key("G")>>, <<"h", Key("H")>>,
      <<"i", Key("I")>>, <<"j", Key("J")>>, <<"k", Key("K")>>, <<"l", Key("L")>>,
      <<"m", Key("M")>>, <<"n", Key("N")>>, <<"o", Key("O")>>, <<"p", Key("P")>>,
      <<"q", Key("Q")>>, <<"r", Key("R")>>, <<"s", Key("S")>>, <<"t", Key("T")>>,
      <<"u", Key("U")>>, <<"v", Key("V")>>, <<"w", Key("W")>>, <<"x", Key("X")>>,
      <<"y", Key("Y")>>, <<"z", Key("Z")>>,
      <<"f1", Key("F1")>>, <<"f2", Key("F2")>>, <<"f3", Key("F3")>>, <<"f4", Key("F4")>>,
      <<"f5", Key("F5")>>, <<"f6", Key("F6")>>, <<"f7", Key("F7")>>, <<"f8", Key("F8")>>,
      <<"f9", Key("F9")>>, <<"f10", Key("F10")>>, <<"f11", Key("F11")>>,
      <<"f12", Key("F12")>>, <<"f13", Key("F13")>>, <<"f14", Key("F14")>>,
      <<"f15", Key("F15")>>, <<"f16", Key("F16")>>, <<"f17", Key("F17")>>,
      <<"f18", Key("F18")>>, <<"f19", Key("F19")>>, <<"f20", Key("F20")>>,
      <<"f21", Key("F21")>>, <<"f22", Key("F22")>>, <<"f23", Key("F23")>>,
      <<"f24", Key("F24")>>,
      <<"back", Key("BrowserBack")>>, <<"forward", Key("BrowserForward")>> }

\* KeyCode::basic_parse
basic_parse(input) ==
    IF \E e \in BasicParseTable : e[1] = input
    THEN Some((CHOOSE e \in BasicParseTable : e[1] = input)[2])
    ELSE None

\* The grave accent: a string that holds it has to hold an apostrophe after it.
Backtick == SubSeq("`'", 1, 1)

PunctuationTable ==
    { <<"0", Key("Digital0")>>, <<"1", Key("Digital1")>>, <<"2", Key("Digital2")>>,
      <<"3", Key("Digital3")>>, <<"4", Key("Digital4")>>, <<"5", Key("Digital5")>>,
      <<"6", Key("Digital6")>>, <<"7", Key("Digital7")>>, <<"8", Key("Digital8")>>,
      <<"9", Key("Digital9")>>, <<";", Key("Semicolon")>>, <<"=", Key("Plus")>>,
      <<",", Key("Comma")>>, <<"-", Key("Minus")>>, <<".", Key("Period")>>,
      <<"/", Key("Slash")>>, <<Backtick, Key("Tilde")>>, <<"[", Key("LeftBracket")>>,
      <<"\\", Key("Backslash")>>, <<"]", Key("RightBracket")>>, <<"'", Key("Quote")>> }

\* KeyCode::parse, which Keystroke::parse calls as from_str: a Result.
KeyCodeParse(input) ==
    IF IsSome(basic_parse(input)) THEN Ok(Unwrap(basic_parse(input)))
    ELSE IF \E e \in PunctuationTable : e[1] = input
         THEN Ok((CHOOSE e \in PunctuationTable : e[1] = input)[2])
         ELSE Err

----------------------------------------------------------------------------
(* Modifiers and Keystroke (keystroke.rs) *)

Modifiers == [control : BOOLEAN, alt : BOOLEAN, shift : BOOLEAN,
              platform : BOOLEAN, function : BOOLEAN]

\* Modifiers::none(), the Default
NoModifiers == [control |-> FALSE, alt |-> FALSE, shift |-> FALSE,
                platform |-> FALSE, function |-> FALSE]

Keystroke(m, k, ime) == [modifiers |-> m, key |-> k, ime_key |-> ime]

ShiftedSymbols == "~!@#$%^&*()_+{}|:\"<>?"
UnshiftedSymbols == "`1234567890-=[]\\;',./"

\* translate_capital_keystroke: Option of the unshifted key of a capital or shifted token.
translate_capital_keystroke(input) ==
    IF Len(input) # 1 THEN None
    ELSE IF IsAsciiAlphabetic(input)
         THEN (IF IsAsciiUppercase(input) THEN Some(ToLowercase(input)) ELSE None)
         ELSE IF IndexOf(input, ShiftedSymbols) > 0
              THEN Some(CharAt(UnshiftedSymbols, IndexOf(input, ShiftedSymbols)))
              ELSE None

\* The locals of Keystroke::parse; key is Option<Result<KeyCode>>, failed is the early
\* return Err of the component loop.
ParseStart ==
    [control |-> FALSE, alt |-> FALSE, shift |-> FALSE, platform |-> FALSE,
     function |-> FALSE, key |-> None, ime_key |-> None, failed |-> FALSE]

\* The modifier arms without "super" among the names of the platform modifier.
ModifierArm_without_super(component) ==
    CASE component = "ctrl" -> Some("control")
      [] component = "alt" -> Some("alt")
      [] component = "shift" -> Some("shift")
      [] component = "fn" -> Some("function")
      [] component \in {"cmd", "win"} -> Some("platform")
      [] OTHER -> None

\* The modifier arms of the `match component`: Option of the flag the token sets.
ModifierArm(component) ==
    CASE component = "ctrl" -> Some("control")
      [] component = "alt" -> Some("alt")
      [] component = "shift" -> Some("shift")
      [] component = "fn" -> Some("function")
      [] component \in {"cmd", "super", "win"} -> Some("platform")
      [] OTHER -> None

RECURSIVE ParseComponents(_, _, _, _)
\* The loop without the `break` of the minus arm: the empty token after the dash is
\* read as the next component.
ParseComponents_minus_continues(src, comps, i, st) ==
    IF i > Len(comps) THEN st
    ELSE LET component == comps[i] IN
         IF IsSome(ModifierArm(component))
         THEN ParseComponents(src, comps, i + 1,
                  [st EXCEPT ![Unwrap(ModifierArm(component))] = TRUE])
         ELSE IF i < Len(comps)
              THEN LET next == comps[i + 1] IN
                   IF next = "" /\ EndsWith(src, "-")
                   THEN ParseComponents(src, comps, i + 1,
                            [st EXCEPT !.key = Some(KeyCodeParse("-"))])
                   ELSE IF Len(next) > 1 /\ StartsWith(next, ">")
                        THEN ParseComponents(src, comps, i + 2,
                                 [st EXCEPT !.key = Some(KeyCodeParse(component)),
                                            !.ime_key = Some(SubSeq(next, 2, Len(next)))])
                        ELSE [st EXCEPT !.failed = TRUE]
              ELSE IF IsSome(translate_capital_keystroke(component))
                   THEN ParseComponents(src, comps, i + 1,
                            [st EXCEPT !.shift = TRUE,
                                       !.key = Some(KeyCodeParse(
                                                   Unwrap(translate_capital_keystroke(component))))])
                   ELSE ParseComponents(src, comps, i + 1,
                            [st EXCEPT !.key = Some(KeyCodeParse(component))])

\* The `while let Some(component) = components.next()` loop, from component i on.
ParseComponents(src, comps, i, st) ==
    IF i > Len(comps) THEN st
    ELSE LET component == comps[i] IN
         IF IsSome(ModifierArm(component))
         THEN ParseComponents(src, comps, i + 1,
                  [st EXCEPT ![Unwrap(ModifierArm(component))] = TRUE])
         ELSE IF i < Len(comps)
              THEN LET next == comps[i + 1] IN
                   IF next = "" /\ EndsWith(src, "-")
                   THEN [st EXCEPT !.key = Some(KeyCodeParse("-"))]
                   ELSE IF Len(next) > 1 /\ StartsWith(next, ">")
                        THEN ParseComponents(src, comps, i + 2,
                                 [st EXCEPT !.key = Some(KeyCodeParse(component)),
                                            !.ime_key = Some(SubSeq(next, 2, Len(next)))])
                        ELSE [st EXCEPT !.failed = TRUE]
              ELSE IF IsSome(translate_capital_keystroke(component))
                   THEN ParseComponents(src, comps, i + 1,
                            [st EXCEPT !.shift = TRUE,
                                       !.key = Some(KeyCodeParse(
                                                   Unwrap(translate_capital_keystroke(component))))])
                   ELSE ParseComponents(src, comps, i + 1,
                            [st EXCEPT !.key = Some(KeyCodeParse(component))])

\* The modifier becomes the key and its flag stays set.
ModifierAsKey_keeps_flag(st) ==
    IF IsSome(st.key) THEN st
    ELSE IF st.shift THEN [st EXCEPT !.key = Some(Ok(KeyAt("Shift", "Any")))]
    ELSE IF st.control THEN [st EXCEPT !.key = Some(Ok(KeyAt("Control", "Any")))]
    ELSE IF st.alt THEN [st EXCEPT !.key = Some(Ok(KeyAt("Alt", "Any")))]
    ELSE IF st.platform THEN [st EXCEPT !.key = Some(Ok(KeyAt("Platform", "Any")))]
    ELSE IF st.function THEN [st EXCEPT !.key = Some(Ok(Key("Function")))]
    ELSE st

\* `if key.is_none() { ... }`: a modifier named without a key becomes the key.
ModifierAsKey(st) ==
    IF IsSome(st.key) THEN st
    ELSE IF st.shift THEN [st EXCEPT !.key = Some(Ok(KeyAt("Shift", "Any"))), !.shift = FALSE]
    ELSE IF st.control THEN [st EXCEPT !.key = Some(Ok(KeyAt("Control", "Any"))), !.control = FALSE]
    ELSE IF st.alt THEN [st EXCEPT !.key = Some(Ok(KeyAt("Alt", "Any"))), !.alt = FALSE]
    ELSE IF st.platform THEN [st EXCEPT !.key = Some(Ok(KeyAt("Platform", "Any"))), !.platform = FALSE]
    ELSE IF st.function THEN [st EXCEPT !.key = Some(Ok(Key("Function"))), !.function = FALSE]
    ELSE st

\* `key.ok_or_else(..)?.log_err().unwrap_or_default()` and the Ok(Keystroke {..}):
\* no key is an error, a key that failed to parse is logged and replaced by the default.
FinishParse(st) ==
    IF ~IsSome(st.key) THEN Err
    ELSE Ok(Keystroke(
             [control |-> st.control, alt |-> st.alt, shift |-> st.shift,
              platform |-> st.platform, function |-> st.function],
             IF Unwrap(st.key).ok THEN Unwrap(st.key).val ELSE Unknown,
             st.ime_key))

\* Keystroke::parse
KeystrokeParse(src) ==
    LET st == ParseComponents(src, Split(src, "-"), 1, ParseStart) IN
    IF st.failed THEN Err ELSE FinishParse(ModifierAsKey(st))

\* Modifiers::is_subset_of
is_subset_of(slf, other) ==
    /\ (other.control \/ ~slf.control)
    /\ (other.alt \/ ~slf.alt)
    /\ (other.shift \/ ~slf.shift)
    /\ (other.platform \/ ~slf.platform)
    /\ (other.function \/ ~slf.function)

\* should_match that accepts a target whose modifiers are a subset of the typed ones.
should_match_subset(slf, tgt) ==
    is_subset_of(tgt.modifiers, slf.modifiers) /\ KeyCodeEq(tgt.key, slf.key)

\* should_match that compares the modifiers alone.
should_match_modifiers_only(slf, tgt) == tgt.modifiers = slf.modifiers

\* Keystroke::should_match: self was typed, tgt is in the keymap.
should_match(slf, tgt) ==
    tgt.modifiers = slf.modifiers /\ KeyCodeEq(tgt.key, slf.key)

----------------------------------------------------------------------------
(* ParseSpec: Keystroke::parse applied to a text written from up to         *)
(* MaxComponents tokens.                                                    *)

Tokens ==
    {"ctrl", "alt", "shift", "fn", "cmd", "super", "win",
     "k", "[", "f1", "K", "{", "foo", "", ">x"}

TokenLists == UNION { [1..n -> Tokens] : n \in 1..MaxComponents }

ParseInit ==
    /\ components \in TokenLists
    /\ source = Join(components, "-")
    /\ parsed = None
    /\ self = None /\ target = None /\ matches = None
    /\ keymap = << >> /\ typed = << >> /\ results = << >>
    /\ ImeIdle /\ VimIdle /\ MapperIdle /\ LaterIdle

\* Keystroke::parse is called on the text.
Parse ==
    /\ parsed = None
    /\ parsed' = Some(KeystrokeParse(source))
    /\ UNCHANGED <<components, source, self, target, matches, keymap, typed, results>>
    /\ UNCHANGED <<imeVars, vimVars, mapperVars, laterVars>>

ParseNext == Parse

ParseSpec == ParseInit /\ [][ParseNext]_vars

----------------------------------------------------------------------------
(* MatchSpec: Keystroke::should_match applied to a typed and a bound        *)
(* keystroke, over every combination of the five modifier flags.            *)

MatchKeys ==
    {Key("A"), Key("K"), KeyAt("Shift", "Any"), KeyAt("Shift", "Left"), KeyAt("Shift", "Right")}

MatchKeystrokeValues ==
    { Keystroke(m, k, ime) : m \in Modifiers, k \in MatchKeys, ime \in {None, Some("x")} }

MatchInit ==
    /\ self \in { Some(ks) : ks \in MatchKeystrokeValues }
    /\ target \in { Some(ks) : ks \in MatchKeystrokeValues }
    /\ matches = None
    /\ components = << >> /\ source = "" /\ parsed = None
    /\ keymap = << >> /\ typed = << >> /\ results = << >>
    /\ ImeIdle /\ VimIdle /\ MapperIdle /\ LaterIdle

ShouldMatch ==
    /\ matches = None
    /\ matches' = Some(should_match(Unwrap(self), Unwrap(target)))
    /\ UNCHANGED <<components, source, parsed, self, target, keymap, typed, results>>
    /\ UNCHANGED <<imeVars, vimVars, mapperVars, laterVars>>

MatchNext == ShouldMatch

MatchSpec == MatchInit /\ [][MatchNext]_vars

----------------------------------------------------------------------------
(* KeyBinding (binding.rs) *)

\* KeyBinding::load: the text is split on whitespace and every piece parsed; the first
\* parse error is returned. The action and the context predicate are stored as given
\* and take no part in matching, so the binding is modelled by its keystrokes.
KeyBindingLoad(text) ==
    LET inputs == SplitWhitespace(text)
        parses == [i \in 1..Len(inputs) |-> KeystrokeParse(inputs[i])]
    IN  IF \E i \in 1..Len(inputs) : ~parses[i].ok
        THEN Err
        ELSE Ok([keystrokes |-> [i \in 1..Len(inputs) |-> parses[i].val]])

\* match_keystrokes with `>=` in place of `>` in the final comparison.
match_keystrokes_ge(binding, typedKeystrokes) ==
    IF Len(binding.keystrokes) < Len(typedKeystrokes) THEN None
    ELSE IF \E i \in 1..Len(typedKeystrokes) :
                ~should_match(typedKeystrokes[i], binding.keystrokes[i])
         THEN None
         ELSE Some(Len(binding.keystrokes) >= Len(typedKeystrokes))

\* match_keystrokes that looks for each typed keystroke anywhere in the chord.
match_keystrokes_any_position(binding, typedKeystrokes) ==
    IF Len(binding.keystrokes) < Len(typedKeystrokes) THEN None
    ELSE IF \E i \in 1..Len(typedKeystrokes) :
                \A j \in 1..Len(binding.keystrokes) :
                    ~should_match(typedKeystrokes[i], binding.keystrokes[j])
         THEN None
         ELSE Some(Len(binding.keystrokes) > Len(typedKeystrokes))

\* match_keystrokes without the length check: the zip stops at the shorter sequence.
match_keystrokes_no_length_check(binding, typedKeystrokes) ==
    IF \E i \in 1..Len(typedKeystrokes) :
           i <= Len(binding.keystrokes)
           /\ ~should_match(typedKeystrokes[i], binding.keystrokes[i])
    THEN None
    ELSE Some(Len(binding.keystrokes) > Len(typedKeystrokes))

\* match_keystrokes that compares the keystroke typed last only, at its position.
match_keystrokes_last_only(binding, typedKeystrokes) ==
    IF Len(binding.keystrokes) < Len(typedKeystrokes) THEN None
    ELSE IF typedKeystrokes # << >>
            /\ ~should_match(typedKeystrokes[Len(typedKeystrokes)],
                             binding.keystrokes[Len(typedKeystrokes)])
         THEN None
         ELSE Some(Len(binding.keystrokes) > Len(typedKeystrokes))

\* KeyBinding::match_keystrokes: Option<bool>
match_keystrokes(binding, typedKeystrokes) ==
    IF Len(binding.keystrokes) < Len(typedKeystrokes) THEN None
    ELSE IF \E i \in 1..Len(typedKeystrokes) :
                ~should_match(typedKeystrokes[i], binding.keystrokes[i])
         THEN None
         ELSE Some(Len(binding.keystrokes) > Len(typedKeystrokes))

----------------------------------------------------------------------------
(* Key-down construction (windows/events.rs) *)

\* impl From<VIRTUAL_KEY>: the rows of the table for the virtual keys typed below; every
\* virtual key without a row is Unknown.
VirtualKeyInto(vk) ==
    CASE vk = "VK_C" -> Key("C")
      [] vk = "VK_K" -> Key("K")
      [] vk = "VK_W" -> Key("W")
      [] vk = "VK_TAB" -> Key("Tab")
      [] vk = "VK_RETURN" -> Key("Enter")
      [] vk = "VK_ESCAPE" -> Key("Escape")
      [] vk = "VK_SPACE" -> Key("Space")
      [] vk = "VK_LEFT" -> Key("Left")
      [] vk = "VK_F1" -> Key("F1")
      [] OTHER -> Unknown

\* is_modifier
is_modifier(vk) == vk \in {"VK_CONTROL", "VK_MENU", "VK_SHIFT", "VK_LWIN", "VK_RWIN"}

\* The keystroke of the KeyDown event of parse_keydown_msg_to_platform_input, with
\* the modifiers current_modifiers() reads.
KeyDownKeystroke(vk, modifiers) == Keystroke(modifiers, VirtualKeyInto(vk), None)

\* current_modifiers(): the pressed state of control, alt, shift and the two windows
\* keys, in any combination; function is always false.
CurrentModifiers == { m \in Modifiers : ~m.function }

----------------------------------------------------------------------------
(* Simulated IME (keystroke.rs, keycodes.rs) *)

\* KeyCode::is_printable with no key excluded.
is_printable_all(key) == TRUE

\* KeyCode::is_printable
is_printable(key) ==
    key.code \notin
        {"F1", "F2", "F3", "F4", "F5", "F6", "F7", "F8", "F9", "F10", "F11", "F12",
         "F13", "F14", "F15", "F16", "F17", "F18", "F19", "F20", "F21", "F22", "F23",
         "F24", "Backspace", "Delete", "Left", "Up", "Right", "Down", "PageUp",
         "PageDown", "Insert", "Home", "End", "BrowserBack", "BrowserForward", "Escape"}

\* The names of the keys that have more than one name in the parse tables.
PreferredNames == {"win"}

\* key.to_string(): the textual form of the key, the name that parses to it (`win`
\* for the platform key, whatever the position); a key without a name in the parse
\* tables has the text of the unnamed keys.
KeyCodeToString(key) ==
    LET names == { e \in BasicParseTable \cup PunctuationTable : e[2].code = key.code } IN
    IF names = {} THEN "UnImplemented"
    ELSE IF Cardinality(names) = 1 THEN (CHOOSE e \in names : TRUE)[1]
    ELSE (CHOOSE e \in names : e[1] \in PreferredNames)[1]

ToUppercaseChar(ch) ==
    IF IsAsciiLowercase(ch) THEN CharAt(UpperLetters, IndexOf(ch, LowerLetters)) ELSE ch

RECURSIVE ToUppercase(_)
\* str::to_uppercase
ToUppercase(s) ==
    IF Len(s) = 0 THEN ""
    ELSE ToUppercaseChar(CharAt(s, 1)) \o ToUppercase(SubSeq(s, 2, Len(s)))

\* One of platform, control, function, alt is set.
HardModifier(m) == m.platform \/ m.control \/ m.function \/ m.alt

\* The `match self.key` of with_simulated_ime: the simulated ime_key of the key.
SimulatedImeKey(ks) ==
    IF ks.key = Key("Space") THEN Some(" ")
    ELSE IF ks.key = Key("Tab") THEN Some("\t")
    ELSE IF ks.key = Key("Enter") THEN Some("\n")
    ELSE IF ~is_printable(ks.key) THEN None
    ELSE IF ks.modifiers.shift THEN Some(ToUppercase(KeyCodeToString(ks.key)))
    ELSE Some(KeyCodeToString(ks.key))

\* with_simulated_ime without `!self.modifiers.control` in its condition.
with_simulated_ime_ignores_control(ks) ==
    IF /\ ks.ime_key = None
       /\ ~ks.modifiers.platform /\ ~ks.modifiers.function /\ ~ks.modifiers.alt
    THEN [ks EXCEPT !.ime_key = SimulatedImeKey(ks)]
    ELSE ks

\* with_simulated_ime that adds the simulated text to the ime_key already there.
with_simulated_ime_appends(ks) ==
    IF ~HardModifier(ks.modifiers) /\ IsSome(SimulatedImeKey(ks))
    THEN [ks EXCEPT !.ime_key =
              Some((IF IsSome(ks.ime_key) THEN Unwrap(ks.ime_key) ELSE "")
                   \o Unwrap(SimulatedImeKey(ks)))]
    ELSE ks

\* Keystroke::with_simulated_ime
with_simulated_ime(ks) ==
    IF /\ ks.ime_key = None
       /\ ~ks.modifiers.platform /\ ~ks.modifiers.control
       /\ ~ks.modifiers.function /\ ~ks.modifiers.alt
    THEN [ks EXCEPT !.ime_key = SimulatedImeKey(ks)]
    ELSE ks

----------------------------------------------------------------------------
(* ImeSpec: a keystroke is produced, by Keystroke::parse from a text or by   *)
(* a key-down message, and with_simulated_ime is applied to it, then to its *)
(* own result.                                                              *)

MaxSimulated == 2   \* with_simulated_ime calls in a row

ImeTexts ==
    {"k", "shift-k", "K", "ctrl-k", "alt-k", "cmd-k", "fn-k", "ctrl-alt-k",
     "k->x", "shift-k->X", "ctrl-k->x", "alt-s->x", "cmd-k->x", "fn-k->x",
     "space", "shift-space", "tab", "enter", "f1", "shift-f1", "escape", "left",
     "[", "{", "1", "!", "-", "shift", "foo", "k-c"}

ImeVirtualKeys ==
    {"VK_K", "VK_SPACE", "VK_TAB", "VK_RETURN", "VK_F1", "VK_ESCAPE", "VK_LEFT",
     "VK_NONAME", "VK_SHIFT"}

ImeInit ==
    /\ ImeIdle
    /\ keymap = << >> /\ typed = << >> /\ results = << >>
    /\ components = << >> /\ source = "" /\ parsed = None
    /\ self = None /\ target = None /\ matches = None
    /\ VimIdle /\ MapperIdle /\ LaterIdle

\* Keystroke::parse(text) returns Ok: the keystroke of a test event.
ParseKeystroke(text) ==
    /\ produced = None
    /\ KeystrokeParse(text).ok
    /\ produced' = Some(KeystrokeParse(text).val)
    /\ producer' = "parse"
    /\ UNCHANGED <<simulated, keymapVars, parseVars, matchVars, vimVars, mapperVars, laterVars>>

\* parse_keydown_msg_to_platform_input for a key that is no modifier: the keystroke
\* of the KeyDown event.
KeyDown(vk, modifiers) ==
    /\ produced = None
    /\ ~is_modifier(vk)
    /\ produced' = Some(KeyDownKeystroke(vk, modifiers))
    /\ producer' = "keydown"
    /\ UNCHANGED <<simulated, keymapVars, parseVars, matchVars, vimVars, mapperVars, laterVars>>

\* The keystroke with_simulated_ime is called on next: the produced keystroke, then
\* the result of the call before.
SimulatedInput(i) == IF i = 1 THEN Unwrap(produced) ELSE simulated[i - 1]

\* with_simulated_ime is called on the keystroke.
WithSimulatedIme ==
    /\ produced # None
    /\ Len(simulated) < MaxSimulated
    /\ simulated' = Append(simulated, with_simulated_ime(SimulatedInput(Len(simulated) + 1)))
    /\ UNCHANGED <<produced, producer, keymapVars, parseVars, matchVars, vimVars, mapperVars, laterVars>>

ImeNext ==
    \/ \E text \in ImeTexts : ParseKeystroke(text)
    \/ \E vk \in ImeVirtualKeys, modifiers \in CurrentModifiers : KeyDown(vk, modifiers)
    \/ WithSimulatedIme

ImeSpec == ImeInit /\ [][ImeNext]_vars

----------------------------------------------------------------------------
(* Vim-style keystrokes (windows/keyboard.rs). The Keystroke of this file   *)
(* has a text as its key and key_char in place of ime_key.                  *)

VimKeystroke(m, k, kc) == [modifiers |-> m, key |-> k, key_char |-> kc]

ImmutableKeys ==
    {"f1", "f2", "f3", "f4", "f5", "f6", "f7", "f8", "f9", "f10", "f11", "f12",
     "f13", "f14", "f15", "f16", "f17", "f18", "f19", "f20", "f21", "f22", "f23",
     "f24", "backspace", "delete", "left", "right", "up", "down", "pageup",
     "pagedown", "insert", "home", "end", "back", "forward", "escape", "space",
     "tab", "enter", "shift", "control", "alt", "platform", "cmd", "super", "win",
     "fn", "menu"}

\* is_immutable_key
is_immutable_key(key) == key \in ImmutableKeys

\* is_letter_key
is_letter_key(key) == Len(key) = 1 /\ IsAsciiLowercase(key)

\* is_already_vim_style that accepts no modifier but platform and function.
is_already_vim_style_no_modifier(modifiers) ==
    ~modifiers.shift /\ ~modifiers.control /\ ~modifiers.alt

\* is_already_vim_style
is_already_vim_style(modifiers) ==
    ~modifiers.shift /\ ~(modifiers.control /\ modifiers.alt)

\* get_modifiers: the shift, ctrl and alt bits of the high byte of VkKeyScanW.
get_modifiers(high) ==
    [shift |-> high % 2 # 0, ctrl |-> (high \div 2) % 2 # 0, alt |-> (high \div 4) % 2 # 0]

\* get_vkey_from_char that takes the -1 of VkKeyScanW for a virtual key.
get_vkey_from_char_ignores_failure(key, modifiers, scan) ==
    IF Len(key) # 1 THEN Err
    ELSE IF scan = None THEN Ok([vkey |-> "VK_NONAME", modifiers |-> modifiers])
    ELSE LET required == get_modifiers(Unwrap(scan).high) IN
         Ok([vkey |-> Unwrap(scan).vkey,
             modifiers |-> [modifiers EXCEPT
                                !.shift = @ \/ required.shift,
                                !.control = @ \/ required.ctrl,
                                !.alt = @ \/ required.alt]])

\* get_vkey_from_char: scan is the answer of VkKeyScanW for the character, None for
\* -1. The result is the virtual key and the modifiers with the required ones set.
get_vkey_from_char(key, modifiers, scan) ==
    IF Len(key) # 1 THEN Err
    ELSE IF scan = None THEN Err
    ELSE LET required == get_modifiers(Unwrap(scan).high) IN
         Ok([vkey |-> Unwrap(scan).vkey,
             modifiers |-> [modifiers EXCEPT
                                !.shift = @ \/ required.shift,
                                !.control = @ \/ required.ctrl,
                                !.alt = @ \/ required.alt]])

\* char::is_control, for the control characters among the answers of ToUnicode.
IsControl(ch) == ch \in {"\t", "\n", "\r"}

\* The `let new_key = { .. }` block: unicode is the text ToUnicode wrote, empty when it
\* returned no character.
NewKey(ks, unicode) ==
    IF Len(unicode) > 0
    THEN IF IsControl(CharAt(unicode, 1)) THEN ks.key ELSE unicode
    ELSE ks.key

\* The virtual-key path, for cases 2 and 3.
VirtualKeyPath(ks, scan, unicode) ==
    IF Len(ks.key) # 1 THEN ks
    ELSE LET vkey == get_vkey_from_char(ks.key, ks.modifiers, scan) IN
         IF ~vkey.ok THEN ks
         ELSE VimKeystroke([vkey.val.modifiers EXCEPT !.shift = FALSE],
                           NewKey(ks, unicode), ks.key_char)

\* to_vim_keystroke that takes the key_char for the key only when none of platform,
\* control and function is set.
to_vim_keystroke_unmodified_only(ks, scan, unicode) ==
    IF is_immutable_key(ks.key) \/ is_letter_key(ks.key) \/ is_already_vim_style(ks.modifiers)
    THEN ks
    ELSE IF /\ IsSome(ks.key_char) /\ Len(Unwrap(ks.key_char)) = 1
            /\ ~(ks.modifiers.platform \/ ks.modifiers.control \/ ks.modifiers.function)
         THEN VimKeystroke(NoModifiers, Unwrap(ks.key_char), ks.key_char)
         ELSE VirtualKeyPath(ks, scan, unicode)

\* WindowsKeyboardMapper::to_vim_keystroke
to_vim_keystroke(ks, scan, unicode) ==
    IF is_immutable_key(ks.key) \/ is_letter_key(ks.key) \/ is_already_vim_style(ks.modifiers)
    THEN ks
    ELSE IF IsSome(ks.key_char) /\ Len(Unwrap(ks.key_char)) = 1
         THEN VimKeystroke(NoModifiers, Unwrap(ks.key_char), ks.key_char)
         ELSE VirtualKeyPath(ks, scan, unicode)

----------------------------------------------------------------------------
(* VimSpec: to_vim_keystroke applied to a keystroke, under every answer of  *)
(* the keyboard layout.                                                     *)

\* A letter, an immutable named key, two keys of one character and a key whose name
\* is longer than one byte.
VimKeys == {"a", "f1", "8", "[", "capslock"}

\* No key_char, key_chars of one character, and a key_char longer than one byte.
VimKeyChars == {None, Some("*"), Some("["), Some("A"), Some("ss")}

\* VkKeyScanW: -1, or a virtual key with the shift state that types the character.
VkKeyScanAnswers ==
    {None, Some([vkey |-> "VK_8", high |-> 0]), Some([vkey |-> "VK_8", high |-> 1]),
     Some([vkey |-> "VK_8", high |-> 6])}

\* ToUnicode: no character, a character, a control character.
ToUnicodeAnswers == {"", "*", "(", "\t"}

VimInit ==
    /\ keystroke \in { Some(VimKeystroke(m, k, kc)) :
                           m \in Modifiers, k \in VimKeys, kc \in VimKeyChars }
    /\ vkey_scan \in VkKeyScanAnswers
    /\ to_unicode \in ToUnicodeAnswers
    /\ vim_keystroke = None
    /\ keymap = << >> /\ typed = << >> /\ results = << >>
    /\ components = << >> /\ source = "" /\ parsed = None
    /\ self = None /\ target = None /\ matches = None
    /\ ImeIdle /\ MapperIdle /\ LaterIdle

\* to_vim_keystroke is called on the keystroke.
ToVimKeystroke ==
    /\ vim_keystroke = None
    /\ vim_keystroke' = Some(to_vim_keystroke(Unwrap(keystroke), vkey_scan, to_unicode))
    /\ UNCHANGED <<keystroke, vkey_scan, to_unicode>>
    /\ UNCHANGED <<keymapVars, parseVars, matchVars, imeVars, mapperVars, laterVars>>

VimNext == ToVimKeystroke

VimSpec == VimInit /\ [][VimNext]_vars

----------------------------------------------------------------------------
(* KeyboardMapperManager (keyboard_mapper.rs) *)

\* KeyboardMapper::new(): the three maps are generated from the keyboard layout that
\* is active when it runs, so a mapper is modelled by that layout; build, the number
\* of this call among all the calls of new(), tells one built mapper from another.
KeyboardMapperNew(layout, build) == [layout |-> layout, build |-> build]

\* KeyboardMapperManager::new: the mapper of the current layout, and nothing else.
KeyboardMapperManagerNew(layout) == (layout :> KeyboardMapperNew(layout, 1))

\* update without the contains_key test: the mapper is built and inserted anew.
update_always_inserts(m, layout, info) ==
    [l \in DOMAIN m \cup {layout} |-> IF l = layout THEN info ELSE m[l]]

\* KeyboardMapperManager::update: info is the mapper KeyboardMapper::new() builds when
\* it is called.
update(m, layout, info) ==
    IF layout \notin DOMAIN m
    THEN [l \in DOMAIN m \cup {layout} |-> IF l = layout THEN info ELSE m[l]]
    ELSE m

\* get_mapper with a fallback instead of unwrap: a missing identifier answers with
\* a mapper that was never built.
get_mapper_or_default(m, layout) ==
    IF layout \in DOMAIN m THEN Ok(m[layout]) ELSE Ok(KeyboardMapperNew(layout, 0))

\* KeyboardMapperManager::get_mapper: self.mapper.get(layout).unwrap(). Ok(mapper) is
\* the reference returned, Err is the panic of unwrap on None.
get_mapper(m, layout) ==
    IF layout \in DOMAIN m THEN Ok(m[layout]) ELSE Err

----------------------------------------------------------------------------
(* MapperSpec: a KeyboardMapperManager is constructed under some layout;    *)
(* the user switches layouts, update is called with layout identifiers and  *)
(* get_mapper looks identifiers up. A panic of get_mapper ends the run.     *)

\* The last get_mapper call panicked: the thread that owns the manager is gone.
Panicked == lookup # None /\ ~Unwrap(lookup).result.ok

MaxUpdates == 3   \* calls of update

\* Keyboard layout identifiers: US, German, French.
Layouts == {"00000409", "00000407", "0000040C"}

MapperInit ==
    /\ current_layout \in Layouts
    /\ mapper = KeyboardMapperManagerNew(current_layout)
    /\ builds = 1
    /\ registered = <<current_layout>>
    /\ lookup = None
    /\ keymap = << >> /\ typed = << >> /\ results = << >>
    /\ components = << >> /\ source = "" /\ parsed = None
    /\ self = None /\ target = None /\ matches = None
    /\ ImeIdle /\ VimIdle /\ LaterIdle

\* The user switches the keyboard layout: keyboard_layout() answers with another
\* identifier from now on.
SwitchLayout(layout) ==
    /\ ~Panicked
    /\ layout # current_layout
    /\ current_layout' = layout
    /\ UNCHANGED <<mapper, builds, registered, lookup>>
    /\ UNCHANGED <<keymapVars, parseVars, matchVars, imeVars, vimVars, laterVars>>

\* update(layout) is called. KeyboardMapper::new() has run when the mapper stored
\* for the layout is the one it would build now.
Update(layout) ==
    /\ ~Panicked
    /\ Len(registered) <= MaxUpdates
    /\ LET info == KeyboardMapperNew(current_layout, builds + 1) IN
       /\ mapper' = update(mapper, layout, info)
       /\ builds' = IF mapper'[layout] = info THEN builds + 1 ELSE builds
    /\ registered' = Append(registered, layout)
    /\ UNCHANGED <<current_layout, lookup>>
    /\ UNCHANGED <<keymapVars, parseVars, matchVars, imeVars, vimVars, laterVars>>

\* get_mapper(layout) is called.
GetMapper(layout) ==
    /\ ~Panicked
    /\ lookup' = Some([layout |-> layout, result |-> get_mapper(mapper, layout)])
    /\ UNCHANGED <<current_layout, mapper, builds, registered>>
    /\ UNCHANGED <<keymapVars, parseVars, matchVars, imeVars, vimVars, laterVars>>

MapperNext ==
    \/ \E layout \in Layouts : SwitchLayout(layout)
    \/ \E layout \in Layouts : Update(layout)
    \/ \E layout \in Layouts : GetMapper(layout)

MapperSpec == MapperInit /\ [][MapperNext]_vars

----------------------------------------------------------------------------
(* Spec: a keymap is loaded binding by binding, then keystrokes are typed   *)
(* one at a time and every binding is matched against the keystrokes typed  *)
(* so far.                                                                  *)

KeymapTexts ==
    {"ctrl-k ctrl-c", "ctrl-k ctrl-w", " ctrl-k  ctrl-c ", "ctrl-k ctrl-c->x",
     "ctrl-k", "k", "", "ctrl-foo", "ctrl-k-c"}

TypedVirtualKeys == {"VK_K", "VK_C", "VK_NONAME", "VK_SHIFT"}

TypedModifiers == {NoModifiers, [NoModifiers EXCEPT !.control = TRUE]}

MatchAll(bindings, typedKeystrokes) ==
    [i \in 1..Len(bindings) |-> match_keystrokes(bindings[i], typedKeystrokes)]

Init ==
    /\ keymap = << >> /\ typed = << >> /\ results = << >>
    /\ components = << >> /\ source = "" /\ parsed = None
    /\ self = None /\ target = None /\ matches = None
    /\ ImeIdle /\ VimIdle /\ MapperIdle /\ LaterIdle

\* The keymap loader calls KeyBinding::load; a text that fails to load adds nothing.
Load(text) ==
    /\ typed = << >>
    /\ Len(keymap) < MaxBindings
    /\ LET loaded == KeyBindingLoad(text) IN
       /\ keymap' = IF loaded.ok THEN Append(keymap, loaded.val) ELSE keymap
       /\ results' = MatchAll(keymap', typed)
    /\ UNCHANGED <<typed, components, source, parsed, self, target, matches>>
    /\ UNCHANGED <<imeVars, vimVars, mapperVars, laterVars>>

\* A WM_KEYDOWN of a key that is no modifier appends its keystroke, and the
\* dispatcher asks every binding for its match with the keystrokes typed so far.
TypeKeystroke(vk, modifiers) ==
    /\ ~is_modifier(vk)
    /\ Len(keymap) > 0
    /\ Len(typed) < MaxTyped
    /\ typed' = Append(typed, KeyDownKeystroke(vk, modifiers))
    /\ results' = MatchAll(keymap, typed')
    /\ UNCHANGED <<keymap, components, source, parsed, self, target, matches>>
    /\ UNCHANGED <<imeVars, vimVars, mapperVars, laterVars>>

Next ==
    \/ \E text \in KeymapTexts : Load(text)
    \/ \E vk \in TypedVirtualKeys, modifiers \in TypedModifiers : TypeKeystroke(vk, modifiers)

Spec == Init /\ [][Next]_vars

----------------------------------------------------------------------------
(* Properties of KeyBinding::match_keystrokes (Spec) *)

\* The typed keystrokes are those of the first n keystrokes of the chord: same
\* modifiers and same key, position by position.
TypedIsPrefix(chord, n) ==
    /\ Len(typed) = n
    /\ n <= Len(chord)
    /\ \A j \in 1..n : typed[j].modifiers = chord[j].modifiers /\ typed[j].key = chord[j].key

\* C1: when the typed sequence is no longer than the chord and every typed keystroke
\* should_match the chord keystroke at its position, match_keystrokes returns
\* Some(chord length > typed length): Some(true) for a proper prefix, Some(false) for
\* the complete chord.
C1_MatchedPrefixIsSomePartial ==
    \A i \in 1..Len(keymap) :
        LET chord == keymap[i].keystrokes IN
        ( /\ Len(typed) <= Len(chord)
          /\ \A j \in 1..Len(typed) : should_match(typed[j], chord[j]) )
        => /\ results[i] = Some(Len(chord) > Len(typed))
           /\ Len(typed) < Len(chord) => results[i] = Some(TRUE)
           /\ Len(typed) = Len(chord) => results[i] = Some(FALSE)

\* A two-keystroke chord has been typed completely and its binding reports Some(false).
C1_Witness ==
    \E i \in 1..Len(keymap) :
        /\ Len(keymap[i].keystrokes) = 2
        /\ TypedIsPrefix(keymap[i].keystrokes, 2)
        /\ results[i] = Some(FALSE)

\* C2: match_keystrokes returns None whenever the typed keystroke at some position
\* fails should_match against the chord keystroke at that same position.
C2_MismatchAtPositionIsNone ==
    \A i \in 1..Len(keymap) :
        LET chord == keymap[i].keystrokes IN
        (\E j \in 1..Len(typed) : j <= Len(chord) /\ ~should_match(typed[j], chord[j]))
        => results[i] = None

\* The keystrokes of a two-keystroke chord typed in the opposite order: every typed
\* keystroke occurs in the chord, none at its own position, and the result is None.
C2_Witness ==
    \E i \in 1..Len(keymap) :
        LET chord == keymap[i].keystrokes IN
        /\ Len(chord) = 2 /\ Len(typed) = 2
        /\ should_match(typed[1], chord[2]) /\ should_match(typed[2], chord[1])
        /\ ~should_match(typed[1], chord[1])
        /\ results[i] = None

\* C3: match_keystrokes returns None for every typed sequence longer than the chord,
\* also when the first chord-length typed keystrokes match the chord.
C3_OverLengthIsNone ==
    \A i \in 1..Len(keymap) :
        Len(typed) > Len(keymap[i].keystrokes) => results[i] = None

\* A whole chord has been typed, followed by one more keystroke.
C3_Witness ==
    \E i \in 1..Len(keymap) :
        LET chord == keymap[i].keystrokes IN
        /\ Len(chord) >= 1
        /\ Len(typed) = Len(chord) + 1
        /\ \A j \in 1..Len(chord) : should_match(typed[j], chord[j])
        /\ results[i] = None

\* Two chords of two keystrokes that share the first keystroke and differ, in
\* modifiers or key, at the second.
Diverging(a, b) ==
    /\ Len(a) = 2 /\ Len(b) = 2
    /\ a[1] = b[1]
    /\ (a[2].modifiers # b[2].modifiers \/ a[2].key # b[2].key)

\* C4: for two bindings whose chords share the first keystroke and differ at the
\* second, after the first keystroke of the chord is typed both bindings report
\* Some(true); after the second keystroke of one chord is typed too, that binding
\* reports Some(false) and the other None.
C4_DivergingChords ==
    \A i, j \in 1..Len(keymap) :
        Diverging(keymap[i].keystrokes, keymap[j].keystrokes)
        => /\ TypedIsPrefix(keymap[i].keystrokes, 1)
              => results[i] = Some(TRUE) /\ results[j] = Some(TRUE)
           /\ TypedIsPrefix(keymap[i].keystrokes, 2)
              => results[i] = Some(FALSE) /\ results[j] = None

\* ctrl-k ctrl-c has been typed against two diverging chords.
C4_Witness ==
    \E i, j \in 1..Len(keymap) :
        /\ Diverging(keymap[i].keystrokes, keymap[j].keystrokes)
        /\ TypedIsPrefix(keymap[i].keystrokes, 2)
        /\ results[i] = Some(FALSE) /\ results[j] = None

----------------------------------------------------------------------------
(* Properties of Keystroke::should_match (MatchSpec) *)

----------------------------------------------------------------------------
(* Properties of Keystroke::parse (ParseSpec) *)

ModifierTokens == {"ctrl", "alt", "shift", "fn", "cmd", "super", "win"}

\* The tokens that KeyCode::parse accepts as a key name.
ValidKeyNames == { t \in Tokens : KeyCodeParse(t).ok }

\* The text is zero or more modifier tokens followed by one token of keyNames.
ModifiersThenKey(keyNames) ==
    /\ Len(components) >= 1
    /\ \A j \in 1..(Len(components) - 1) : components[j] \in ModifierTokens
    /\ components[Len(components)] \in keyNames

KeyToken == components[Len(components)]

\* The flags that the modifier tokens in front of the key token name.
FlagsNamed ==
    LET named == { components[j] : j \in 1..(Len(components) - 1) } IN
    [control |-> "ctrl" \in named,
     alt |-> "alt" \in named,
     shift |-> "shift" \in named,
     platform |-> named \cap {"cmd", "super", "win"} # {},
     function |-> "fn" \in named]

\* The tokens that are no key name: not a modifier token, not empty, no ime suffix,
\* and not accepted by KeyCode::parse as written or after the translation of a
\* capital or shifted character.
UnknownKeyNames ==
    { t \in Tokens \ ModifierTokens :
        /\ t # "" /\ ~StartsWith(t, ">")
        /\ ~KeyCodeParse(t).ok
        /\ IsSome(translate_capital_keystroke(t))
               => ~KeyCodeParse(Unwrap(translate_capital_keystroke(t))).ok }

\* C6: Keystroke::parse returns an error when the key token is not a key name that
\* KeyCode::parse accepts; it never returns Ok for such a text.
C6_UnknownKeyNameIsError ==
    (parsed # None /\ ModifiersThenKey(UnknownKeyNames)) => ~Unwrap(parsed).ok

\* C9 as stated: modifier tokens followed by any valid key name give exactly the
\* flags named, the key of the key name, and no ime_key.
C9_ModifiersThenAnyValidKey ==
    (parsed # None /\ ModifiersThenKey(ValidKeyNames))
    => Unwrap(parsed) = Ok(Keystroke(FlagsNamed, KeyCodeParse(KeyToken).val, None))

\* C9: modifier tokens, in any order, followed by a valid key name that is not itself
\* a modifier token give exactly the flags named, the key of the key name, and no
\* ime_key.
C9_ModifiersThenKeyName ==
    (parsed # None /\ ModifiersThenKey(ValidKeyNames \ ModifierTokens))
    => Unwrap(parsed) = Ok(Keystroke(FlagsNamed, KeyCodeParse(KeyToken).val, None))

\* shift-ctrl-k has been parsed: two modifier tokens, not in the order of the syntax.
C9_Witness ==
    /\ components = <<"shift", "ctrl", "k">>
    /\ parsed # None
    /\ Unwrap(parsed).ok
    /\ Unwrap(parsed).val.modifiers.control /\ Unwrap(parsed).val.modifiers.shift

\* C10: a text that is a single modifier token parses to the keystroke whose key is
\* that modifier, at position Any, with all five flags false.
C10_SingleModifierIsKey ==
    (parsed # None /\ Len(components) = 1 /\ components[1] \in ModifierTokens)
    => /\ Unwrap(parsed).ok
       /\ Unwrap(parsed).val.modifiers = NoModifiers
       /\ Unwrap(parsed).val.key =
              CASE components[1] = "shift" -> KeyAt("Shift", "Any")
                [] components[1] = "ctrl" -> KeyAt("Control", "Any")
                [] components[1] = "alt" -> KeyAt("Alt", "Any")
                [] components[1] \in {"cmd", "super", "win"} -> KeyAt("Platform", "Any")
                [] components[1] = "fn" -> Key("Function")

\* The text `super` has been parsed to the Platform key.
C10_Witness ==
    /\ components = <<"super">>
    /\ parsed # None
    /\ Unwrap(parsed).ok
    /\ Unwrap(parsed).val.key = KeyAt("Platform", "Any")

----------------------------------------------------------------------------
(* Properties of KeyBinding::load (Spec) *)

\* C7: a typed sequence that contains a keystroke whose key is Unknown matches no
\* loaded binding: match_keystrokes returns None.
C7_UnknownNeverMatches ==
    \A i \in 1..Len(keymap) :
        (\E j \in 1..Len(typed) : typed[j].key = Unknown) => results[i] = None

\* C8: every binding that KeyBinding::load returned has a non-empty keystroke sequence.
C8_LoadedChordNonEmpty ==
    \A i \in 1..Len(keymap) : Len(keymap[i].keystrokes) >= 1

----------------------------------------------------------------------------
(* Further properties of Keystroke::parse (ParseSpec) *)

\* A token is an ime suffix when it is `>` followed by at least one character.
IsImeSuffix(t) == Len(t) > 1 /\ StartsWith(t, ">")

\* The positions of the key tokens of the text: the non-empty tokens that are
\* neither a modifier token nor an ime suffix.
KeyTokenPositions ==
    { j \in 1..Len(components) :
        /\ components[j] # ""
        /\ components[j] \notin ModifierTokens
        /\ ~IsImeSuffix(components[j]) }

\* C11: Keystroke::parse returns an error whenever the text holds more than one token
\* that is neither a modifier token nor an ime suffix (two non-modifier tokens).
C11_TwoKeyTokensIsError ==
    (parsed # None /\ Cardinality(KeyTokenPositions) >= 2) => ~Unwrap(parsed).ok

\* The text is zero or more modifier tokens, each followed by its separator, and
\* then a bare `-`: split on `-`, the modifier tokens followed by two empty tokens.
ModifiersThenMinus ==
    /\ Len(components) >= 2
    /\ components[Len(components)] = "" /\ components[Len(components) - 1] = ""
    /\ \A j \in 1..(Len(components) - 2) : components[j] \in ModifierTokens

\* The flags that the modifier tokens in front of the bare `-` name.
FlagsBeforeMinus ==
    LET named == { components[j] : j \in 1..(Len(components) - 2) } IN
    [control |-> "ctrl" \in named,
     alt |-> "alt" \in named,
     shift |-> "shift" \in named,
     platform |-> named \cap {"cmd", "super", "win"} # {},
     function |-> "fn" \in named]

\* C12: when the text ends with a bare `-` after zero or more modifier tokens,
\* Keystroke::parse returns the Minus key with exactly the modifiers named before it
\* and no ime_key: `ctrl--` is control + Minus, `-` is Minus with no modifier.
C12_TrailingDashIsMinus ==
    (parsed # None /\ ModifiersThenMinus)
    => Unwrap(parsed) = Ok(Keystroke(FlagsBeforeMinus, Key("Minus"), None))

\* The text `ctrl--` has been parsed to control + Minus.
C12_Witness ==
    /\ source = "ctrl--"
    /\ parsed # None
    /\ Unwrap(parsed).ok
    /\ Unwrap(parsed).val.key = Key("Minus")
    /\ Unwrap(parsed).val.modifiers = [NoModifiers EXCEPT !.control = TRUE]

----------------------------------------------------------------------------
(* Key positions in Keystroke::should_match (MatchSpec) *)

\* C13: KeyPosition equality makes Any equal to Left and to Right, in both orders,
\* while Left and Right are unequal; so a typed keystroke whose key is Shift(Left) or
\* Shift(Right) matches a binding on Shift(Any) with the same modifiers, and a binding
\* on Shift(Left) does not match a typed Shift(Right).
C13_AnyPositionMatchesBoth ==
    /\ KeyPositionEq("Any", "Left") /\ KeyPositionEq("Left", "Any")
    /\ KeyPositionEq("Any", "Right") /\ KeyPositionEq("Right", "Any")
    /\ ~KeyPositionEq("Left", "Right") /\ ~KeyPositionEq("Right", "Left")
    /\ matches # None =>
           LET s == Unwrap(self)
               t == Unwrap(target)
           IN  /\ ( /\ s.key \in {KeyAt("Shift", "Left"), KeyAt("Shift", "Right")}
                    /\ t.key = KeyAt("Shift", "Any")
                    /\ s.modifiers = t.modifiers ) => Unwrap(matches) = TRUE
               /\ (s.key = KeyAt("Shift", "Right") /\ t.key = KeyAt("Shift", "Left"))
                      => Unwrap(matches) = FALSE

\* A typed Shift(Right) has matched a binding on Shift(Any).
C13_Witness ==
    /\ matches = Some(TRUE)
    /\ Unwrap(self).key = KeyAt("Shift", "Right")
    /\ Unwrap(target).key = KeyAt("Shift", "Any")

----------------------------------------------------------------------------
(* Properties of ime_key and with_simulated_ime (ImeSpec) *)

\* The keystrokes produced so far: by parse or a key-down, and by with_simulated_ime.
ProducedKeystrokes ==
    (IF produced = None THEN {} ELSE {Unwrap(produced)})
    \cup { simulated[i] : i \in 1..Len(simulated) }

\* C14 as stated: in every keystroke produced by Keystroke::parse, by the key-down
\* construction or by with_simulated_ime, ime_key is Some only if none of control,
\* alt, platform and function is set.
C14_ImeKeyOnlyWithoutHardModifier ==
    \A ks \in ProducedKeystrokes : IsSome(ks.ime_key) => ~HardModifier(ks.modifiers)

\* C14: a keystroke of the key-down construction has no ime_key; with_simulated_ime
\* fills an empty ime_key only if none of control, alt, platform and function is
\* set; an ime_key beside one of these modifiers is the `->` suffix of a parsed text,
\* which with_simulated_ime carries over.
C14_ImeKeyFilledOnlyWithoutHardModifier ==
    /\ producer = "keydown" => Unwrap(produced).ime_key = None
    /\ \A i \in 1..Len(simulated) :
           /\ (SimulatedInput(i).ime_key = None /\ IsSome(simulated[i].ime_key))
                  => ~HardModifier(simulated[i].modifiers)
           /\ (IsSome(simulated[i].ime_key) /\ HardModifier(simulated[i].modifiers))
                  => /\ producer = "parse"
                     /\ simulated[i].ime_key = Unwrap(produced).ime_key

\* The key-down of K with shift held, which has no ime_key, has been given the
\* simulated ime_key "K".
C14_Witness ==
    /\ producer = "keydown"
    /\ Len(simulated) >= 1
    /\ Unwrap(produced).modifiers = [NoModifiers EXCEPT !.shift = TRUE]
    /\ Unwrap(produced).ime_key = None
    /\ simulated[1].ime_key = Some("K")

\* C15: with_simulated_ime is idempotent: called on its own result it returns that
\* result, k.with_simulated_ime().with_simulated_ime() = k.with_simulated_ime().
C15_SimulatedImeIdempotent ==
    \A i \in 2..Len(simulated) : simulated[i] = simulated[i - 1]

\* with_simulated_ime has filled the ime_key of a keystroke and has then been
\* called on the result.
C15_Witness ==
    /\ Len(simulated) = 2
    /\ Unwrap(produced).ime_key = None
    /\ IsSome(simulated[1].ime_key)
    /\ simulated[2] = simulated[1]

\* The key codes that KeyCode::is_printable excludes.
NonPrintableCodes ==
    {"F1", "F2", "F3", "F4", "F5", "F6", "F7", "F8", "F9", "F10", "F11", "F12",
     "F13", "F14", "F15", "F16", "F17", "F18", "F19", "F20", "F21", "F22", "F23",
     "F24", "Backspace", "Delete", "Left", "Up", "Right", "Down", "PageUp",
     "PageDown", "Insert", "Home", "End", "BrowserBack", "BrowserForward", "Escape"}

\* C16: with_simulated_ime never changes modifiers or key, and changes ime_key only
\* when it is None and none of platform, control, function and alt is set; in that
\* case ime_key becomes " " for Space, "\t" for Tab, "\n" for Enter, stays None for
\* every non-printable key, and otherwise becomes the key's textual form, uppercased
\* when shift is set.
C16_SimulatedImeKey ==
    \A i \in 1..Len(simulated) :
        LET in == SimulatedInput(i)
            out == simulated[i]
        IN  /\ out.modifiers = in.modifiers
            /\ out.key = in.key
            /\ out.ime_key # in.ime_key
                   => (in.ime_key = None /\ ~HardModifier(in.modifiers))
            /\ (in.ime_key = None /\ ~HardModifier(in.modifiers))
                   => out.ime_key =
                          CASE in.key.code = "Space" -> Some(" ")
                            [] in.key.code = "Tab" -> Some("\t")
                            [] in.key.code = "Enter" -> Some("\n")
                            [] in.key.code \in NonPrintableCodes -> None
                            [] OTHER ->
                                 IF in.modifiers.shift
                                 THEN Some(ToUppercase(KeyCodeToString(in.key)))
                                 ELSE Some(KeyCodeToString(in.key))

\* with_simulated_ime has been called on F1 with shift held, a non-printable key, and
\* has left ime_key None.
C16_Witness ==
    /\ Len(simulated) >= 1
    /\ Unwrap(produced) = Keystroke([NoModifiers EXCEPT !.shift = TRUE], Key("F1"), None)
    /\ simulated[1].ime_key = None

----------------------------------------------------------------------------
(* Properties of WindowsKeyboardMapper::to_vim_keystroke (VimSpec) *)

\* The keystroke has a key_char of one character.
SingleKeyChar(ks) == IsSome(ks.key_char) /\ Len(Unwrap(ks.key_char)) = 1

\* The first test of to_vim_keystroke does not return the keystroke: the key is no
\* immutable named key and no letter, and shift is set or control and alt both are.
PastFirstTest(ks) ==
    /\ ks.key \notin ImmutableKeys
    /\ ~(Len(ks.key) = 1 /\ IndexOf(ks.key, LowerLetters) > 0)
    /\ (ks.modifiers.shift \/ (ks.modifiers.control /\ ks.modifiers.alt))

\* The result is the key_char as the key, with the modifiers cleared.
KeyCharIsKey(ks, out) == out = VimKeystroke(NoModifiers, Unwrap(ks.key_char), ks.key_char)

\* C17 as stated: the key_char becomes the key, with the modifiers cleared, only for
\* a keystroke with none of platform, control and function set; a keystroke with one
\* of them set, past the first test, keeps that modifier in the result.
C17_KeyCharOnlyWithoutModifier ==
    vim_keystroke # None =>
        LET ks == Unwrap(keystroke)
            out == Unwrap(vim_keystroke)
        IN  (PastFirstTest(ks)
             /\ (ks.modifiers.platform \/ ks.modifiers.control \/ ks.modifiers.function))
            => /\ ks.modifiers.platform => out.modifiers.platform
               /\ ks.modifiers.control => out.modifiers.control
               /\ ks.modifiers.function => out.modifiers.function

\* C17: past the first test, a key_char of one character becomes the key, with the
\* modifiers cleared, whatever modifiers the keystroke carries; a keystroke without
\* such a key_char goes through the virtual-key path, which keeps control, alt,
\* platform, function and the key_char, and clears shift unless it gives up.
C17_KeyCharBecomesKey ==
    vim_keystroke # None =>
        LET ks == Unwrap(keystroke)
            out == Unwrap(vim_keystroke)
        IN  /\ (PastFirstTest(ks) /\ SingleKeyChar(ks)) => KeyCharIsKey(ks, out)
            /\ (PastFirstTest(ks) /\ ~SingleKeyChar(ks))
               => /\ ks.modifiers.platform = out.modifiers.platform
                  /\ ks.modifiers.function = out.modifiers.function
                  /\ ks.modifiers.control => out.modifiers.control
                  /\ ks.modifiers.alt => out.modifiers.alt
                  /\ out.key_char = ks.key_char
                  /\ (out = ks \/ ~out.modifiers.shift)

\* control-alt-8 with key_char `[`, AltGr + 8 on a German layout, has become `[`
\* with no modifier.
C17_Witness ==
    /\ vim_keystroke # None
    /\ Unwrap(keystroke) =
           VimKeystroke([NoModifiers EXCEPT !.control = TRUE, !.alt = TRUE], "8", Some("["))
    /\ Unwrap(vim_keystroke) = VimKeystroke(NoModifiers, "[", Some("["))

\* C18 as stated: whenever the key is not a single character or VkKeyScanW has no
\* virtual key for it, the result is the keystroke unchanged.
C18_FailureReturnsOriginal ==
    vim_keystroke # None =>
        LET ks == Unwrap(keystroke) IN
        (Len(ks.key) # 1 \/ vkey_scan = None) => Unwrap(vim_keystroke) = ks

\* C18: to_vim_keystroke always returns a keystroke; whenever the keystroke has no
\* key_char of one character and its key is not a single character or VkKeyScanW has
\* no virtual key for it, the result is the keystroke unchanged.
C18_VirtualKeyFailureReturnsOriginal ==
    vim_keystroke # None =>
        LET ks == Unwrap(keystroke)
            out == Unwrap(vim_keystroke)
        IN  /\ DOMAIN out = {"modifiers", "key", "key_char"}
            /\ (~SingleKeyChar(ks) /\ (Len(ks.key) # 1 \/ vkey_scan = None)) => out = ks

\* control-shift-8 without a key_char, past the first test, has come back unchanged
\* because VkKeyScanW had no virtual key for `8`.
C18_Witness ==
    /\ vim_keystroke # None
    /\ vkey_scan = None
    /\ to_unicode = "*"
    /\ Unwrap(keystroke) =
           VimKeystroke([NoModifiers EXCEPT !.control = TRUE, !.shift = TRUE], "8", None)
    /\ Unwrap(vim_keystroke) = Unwrap(keystroke)

\* C19: to_vim_keystroke returns its input unchanged when the key is an immutable
\* named key, when the key is a letter a-z, with or without shift, or when the
\* modifiers are already vim-style; is_already_vim_style holds exactly when shift is
\* not set and control and alt are not both set.
C19_FirstTestReturnsInput ==
    LET ks == Unwrap(keystroke) IN
    /\ is_already_vim_style(ks.modifiers)
           = (~ks.modifiers.shift /\ ~(ks.modifiers.control /\ ks.modifiers.alt))
    /\ vim_keystroke # None =>
           (~PastFirstTest(ks) => Unwrap(vim_keystroke) = ks)

\* control-8, already vim-style, has come back unchanged although ToUnicode had
\* another character for the key.
C19_Witness ==
    /\ vim_keystroke # None
    /\ to_unicode = "*"
    /\ vkey_scan # None
    /\ Unwrap(keystroke) = VimKeystroke([NoModifiers EXCEPT !.control = TRUE], "8", None)
    /\ Unwrap(vim_keystroke) = Unwrap(keystroke)

----------------------------------------------------------------------------
(* Properties of KeyboardMapperManager (MapperSpec) *)

\* The identifiers registered so far: the initial layout and every argument of update.
RegisteredIds == { registered[i] : i \in 1..Len(registered) }

\* C20: KeyboardMapperManager builds the mapper of a layout identifier at most once
\* and never evicts it: in every state every identifier registered so far is present
\* and KeyboardMapper::new() has run once for each of them, and no step removes or
\* replaces a stored mapper, so update(l) for a registered l leaves it untouched.
C20_MapperBuiltOnceNeverEvicted ==
    /\ [](RegisteredIds = DOMAIN mapper /\ builds = Cardinality(RegisteredIds))
    /\ [][\A l \in DOMAIN mapper : l \in DOMAIN mapper' /\ mapper'[l] = mapper[l]]_vars

\* update has been called with the initial layout after the user switched to
\* another layout and registered it: the mapper of the initial layout is still the
\* one built first, under that layout.
C20_Witness ==
    /\ Len(registered) = 3
    /\ registered[2] # registered[1]
    /\ registered[3] = registered[1]
    /\ current_layout = registered[2]
    /\ mapper[registered[1]] = KeyboardMapperNew(registered[1], 1)
    /\ builds = 2

\* C21: get_mapper(l) panics exactly when l is neither the layout active at
\* construction nor an identifier passed to update before the call, and otherwise
\* returns the mapper stored for l. (A panic ends the run, so the identifiers
\* registered at the call are the identifiers registered in the state.)
C21_GetMapperPanicsIffUnregistered ==
    lookup # None =>
        LET l == Unwrap(lookup).layout
            r == Unwrap(lookup).result
        IN /\ ~r.ok <=> l \notin RegisteredIds
           /\ r.ok => r.val = mapper[l]

\* get_mapper has returned the mapper of a layout that update registered after the
\* user switched to it: the mapper built second, under that layout.
C21_Witness ==
    /\ lookup # None
    /\ Unwrap(lookup).layout # registered[1]
    /\ Unwrap(lookup).layout = current_layout
    /\ Unwrap(lookup).result = Ok(KeyboardMapperNew(current_layout, 2))

\* get_mapper has panicked for an identifier after update was called for another.
C21_WitnessPanic ==
    /\ Panicked
    /\ Len(registered) = 2
    /\ registered[2] # registered[1]

----------------------------------------------------------------------------
(* MacKeyboard (mac/keyboard.rs) *)

\* The match of code_to_key, one row per key code: <<variant, position, scan code>>.
\* The scan code is None for the arms that are todo!().
CodeToKeyTable == {
    <<"Unknown", "NoPos", Some(255)>>, <<"Function", "NoPos", Some(63)>>,
    <<"Cancel", "NoPos", None>>, <<"Backspace", "NoPos", Some(51)>>,
    <<"Tab", "NoPos", Some(48)>>, <<"Clear", "NoPos", None>>,
    <<"Enter", "NoPos", Some(36)>>, <<"Shift", "Right", Some(60)>>,
    <<"Shift", "Left", Some(56)>>, <<"Shift", "Any", Some(56)>>,
    <<"Control", "Right", Some(62)>>, <<"Control", "Left", Some(59)>>,
    <<"Control", "Any", Some(59)>>, <<"Alt", "Right", Some(61)>>,
    <<"Alt", "Left", Some(58)>>, <<"Alt", "Any", Some(58)>>, <<"Pause", "NoPos", None>>,
    <<"Capital", "NoPos", Some(57)>>, <<"Kana", "NoPos", None>>,
    <<"Hangul", "NoPos", None>>, <<"Junja", "NoPos", None>>, <<"Final", "NoPos", None>>,
    <<"Hanja", "NoPos", None>>, <<"Kanji", "NoPos", None>>,
    <<"Escape", "NoPos", Some(53)>>, <<"Convert", "NoPos", None>>,
    <<"Nonconvert", "NoPos", None>>, <<"Accept", "NoPos", None>>,
    <<"ModeChange", "NoPos", None>>, <<"Space", "NoPos", Some(49)>>,
    <<"PageUp", "NoPos", Some(116)>>, <<"PageDown", "NoPos", Some(121)>>,
    <<"End", "NoPos", Some(119)>>, <<"Home", "NoPos", Some(115)>>,
    <<"Left", "NoPos", Some(123)>>, <<"Up", "NoPos", Some(126)>>,
    <<"Right", "NoPos", Some(124)>>, <<"Down", "NoPos", Some(125)>>,
    <<"Select", "NoPos", None>>, <<"Print", "NoPos", None>>,
    <<"Execute", "NoPos", None>>, <<"PrintScreen", "NoPos", None>>,
    <<"Insert", "NoPos", Some(114)>>, <<"Delete", "NoPos", Some(117)>>,
    <<"Help", "NoPos", None>>, <<"Digital0", "NoPos", Some(29)>>,
    <<"Digital1", "NoPos", Some(18)>>, <<"Digital2", "NoPos", Some(19)>>,
    <<"Digital3", "NoPos", Some(20)>>, <<"Digital4", "NoPos", Some(21)>>,
    <<"Digital5", "NoPos", Some(23)>>, <<"Digital6", "NoPos", Some(22)>>,
    <<"Digital7", "NoPos", Some(26)>>, <<"Digital8", "NoPos", Some(28)>>,
    <<"Digital9", "NoPos", Some(25)>>, <<"A", "NoPos", Some(0)>>,
    <<"B", "NoPos", Some(11)>>, <<"C", "NoPos", Some(8)>>, <<"D", "NoPos", Some(2)>>,
    <<"E", "NoPos", Some(14)>>, <<"F", "NoPos", Some(3)>>, <<"G", "NoPos", Some(5)>>,
    <<"H", "NoPos", Some(4)>>, <<"I", "NoPos", Some(34)>>, <<"J", "NoPos", Some(38)>>,
    <<"K", "NoPos", Some(40)>>, <<"L", "NoPos", Some(37)>>, <<"M", "NoPos", Some(46)>>,
    <<"N", "NoPos", Some(45)>>, <<"O", "NoPos", Some(31)>>, <<"P", "NoPos", Some(35)>>,
    <<"Q", "NoPos", Some(12)>>, <<"R", "NoPos", Some(15)>>, <<"S", "NoPos", Some(1)>>,
    <<"T", "NoPos", Some(17)>>, <<"U", "NoPos", Some(32)>>, <<"V", "NoPos", Some(9)>>,
    <<"W", "NoPos", Some(13)>>, <<"X", "NoPos", Some(7)>>, <<"Y", "NoPos", Some(16)>>,
    <<"Z", "NoPos", Some(6)>>, <<"Platform", "Right", Some(54)>>,
    <<"Platform", "Left", Some(55)>>, <<"Platform", "Any", Some(55)>>,
    <<"App", "NoPos", None>>, <<"Sleep", "NoPos", None>>,
    <<"Numpad0", "NoPos", Some(82)>>, <<"Numpad1", "NoPos", Some(83)>>,
    <<"Numpad2", "NoPos", Some(84)>>, <<"Numpad3", "NoPos", Some(85)>>,
    <<"Numpad4", "NoPos", Some(86)>>, <<"Numpad5", "NoPos", Some(87)>>,
    <<"Numpad6", "NoPos", Some(88)>>, <<"Numpad7", "NoPos", Some(89)>>,
    <<"Numpad8", "NoPos", Some(91)>>, <<"Numpad9", "NoPos", Some(92)>>,
    <<"Multiply", "NoPos", Some(67)>>, <<"Add", "NoPos", Some(69)>>,
    <<"Separator", "NoPos", Some(255)>>, <<"Subtract", "NoPos", Some(78)>>,
    <<"Decimal", "NoPos", Some(65)>>, <<"Divide", "NoPos", Some(77)>>,
    <<"F1", "NoPos", Some(122)>>, <<"F2", "NoPos", Some(120)>>,
    <<"F3", "NoPos", Some(99)>>, <<"F4", "NoPos", Some(118)>>,
    <<"F5", "NoPos", Some(96)>>, <<"F6", "NoPos", Some(97)>>,
    <<"F7", "NoPos", Some(98)>>, <<"F8", "NoPos", Some(100)>>,
    <<"F9", "NoPos", Some(101)>>, <<"F10", "NoPos", Some(109)>>,
    <<"F11", "NoPos", Some(103)>>, <<"F12", "NoPos", Some(111)>>,
    <<"F13", "NoPos", Some(105)>>, <<"F14", "NoPos", Some(107)>>,
    <<"F15", "NoPos", Some(113)>>, <<"F16", "NoPos", Some(106)>>,
    <<"F17", "NoPos", Some(64)>>, <<"F18", "NoPos", Some(79)>>,
    <<"F19", "NoPos", Some(80)>>, <<"F20", "NoPos", Some(90)>>, <<"F21", "NoPos", None>>,
    <<"F22", "NoPos", None>>, <<"F23", "NoPos", None>>, <<"F24", "NoPos", None>>,
    <<"NumLock", "NoPos", None>>, <<"ScrollLock", "NoPos", None>>,
    <<"BrowserBack", "NoPos", None>>, <<"BrowserForward", "NoPos", None>>,
    <<"BrowserRefresh", "NoPos", None>>, <<"BrowserStop", "NoPos", None>>,
    <<"BrowserSearch", "NoPos", None>>, <<"BrowserFavorites", "NoPos", None>>,
    <<"BrowserHome", "NoPos", None>>, <<"VolumeMute", "NoPos", Some(74)>>,
    <<"VolumeDown", "NoPos", Some(73)>>, <<"VolumeUp", "NoPos", Some(72)>>,
    <<"MediaNextTrack", "NoPos", None>>, <<"MediaPrevTrack", "NoPos", None>>,
    <<"MediaStop", "NoPos", None>>, <<"MediaPlayPause", "NoPos", None>>,
    <<"LaunchMail", "NoPos", None>>, <<"LaunchMediaSelect", "NoPos", None>>,
    <<"LaunchApp1", "NoPos", None>>, <<"LaunchApp2", "NoPos", None>>,
    <<"Semicolon", "NoPos", Some(41)>>, <<"Plus", "NoPos", Some(24)>>,
    <<"Comma", "NoPos", Some(43)>>, <<"Minus", "NoPos", Some(27)>>,
    <<"Period", "NoPos", Some(47)>>, <<"Slash", "NoPos", Some(44)>>,
    <<"Tilde", "NoPos", Some(50)>>, <<"LeftBracket", "NoPos", Some(33)>>,
    <<"Backslash", "NoPos", Some(42)>>, <<"RightBracket", "NoPos", Some(30)>>,
    <<"Quote", "NoPos", Some(39)>>, <<"OEM8", "NoPos", None>>,
    <<"OEM102", "NoPos", None>>, <<"ProcessKey", "NoPos", None>>,
    <<"Packet", "NoPos", None>>, <<"Attn", "NoPos", None>>, <<"CrSel", "NoPos", None>>,
    <<"ExSel", "NoPos", None>>, <<"EraseEOF", "NoPos", None>>, <<"Play", "NoPos", None>>,
    <<"Zoom", "NoPos", None>>, <<"PA1", "NoPos", None>>, <<"OEMClear", "NoPos", None>>
}

\* The scan code the match of code_to_key selects; Err is the panic of todo!().
KeycodeOf(code) ==
    LET row == CHOOSE r \in CodeToKeyTable : r[1] = code.code /\ r[2] = code.pos IN
    IF row[3] = None THEN Err ELSE Ok(Unwrap(row[3]))

\* MacKeyboard::code_to_key; answer is what key_string_from_keycode returns for the
\* scan code under the active layout. Err is a panic.
code_to_key(code, answer) ==
    LET keycode == KeycodeOf(code) IN
    IF ~keycode.ok THEN Err
    ELSE IF keycode.val = 255 THEN Ok("Unknown")
    ELSE Ok(answer)

\* MacKeyboard::to_native_keystroke: the match on the layout changes nothing, then
\* the label is assigned. Err is a panic, which leaves the keystroke as it was.
to_native_keystroke(ks, layout, answer) ==
    LET label == code_to_key(ks.code, answer) IN
    IF label.ok THEN Ok([ks EXCEPT !.label = label.val]) ELSE Err

----------------------------------------------------------------------------
(* MacSpec: to_native_keystroke is called once on a keystroke of any key    *)
(* code, under any layout.                                                  *)

KeyboardLayouts == {"ABC", "Czech", "CzechQwerty", "German", "Russian"}

\* Answers of key_string_from_keycode(keycode, false, false).
KeyStringAnswers == {"a", "1", ";"}

MacKeyCodes == { [code |-> r[1], pos |-> r[2]] : r \in CodeToKeyTable }

MacInit ==
    /\ key_stroke \in { Some([code |-> c, label |-> ""]) : c \in MacKeyCodes }
    /\ KEYBOARD_LAYOUT \in KeyboardLayouts
    /\ key_string \in KeyStringAnswers
    /\ native = "none"
    /\ EarlierIdle /\ TermIdle /\ HashIdle /\ WinIdle /\ DispatcherIdle

ToNativeKeystroke ==
    /\ native = "none"
    /\ LET r == to_native_keystroke(Unwrap(key_stroke), KEYBOARD_LAYOUT, key_string) IN
       /\ key_stroke' = IF r.ok THEN Some(r.val) ELSE key_stroke
       /\ native' = IF r.ok THEN "returned" ELSE "panicked"
    /\ UNCHANGED <<KEYBOARD_LAYOUT, key_string>>
    /\ UNCHANGED <<earlierVars, termVars, hashVars, winVars, dispatcherVars>>

MacNext == ToNativeKeystroke

MacSpec == MacInit /\ [][MacNext]_vars

----------------------------------------------------------------------------
(* Properties of MacKeyboard (MacSpec) *)

\* The key codes whose arm in code_to_key carries no scan code.
UnmappedCodes == { c \in MacKeyCodes : ~KeycodeOf(c).ok \/ KeycodeOf(c) = Ok(255) }

\* C22: code_to_key and to_native_keystroke never abort: for every key code the
\* call returns, and a key code without a native scan code gets the label "Unknown".
C22_NeverAborts ==
    native # "none" =>
        /\ native = "returned"
        /\ Unwrap(key_stroke).code \in UnmappedCodes => Unwrap(key_stroke).label = "Unknown"

\* to_native_keystroke has returned for the key code Unknown, labelled "Unknown".
C22_Witness ==
    /\ native = "returned"
    /\ Unwrap(key_stroke).code = [code |-> "Unknown", pos |-> "NoPos"]
    /\ Unwrap(key_stroke).label = "Unknown"

----------------------------------------------------------------------------
(* Terminal key mappings (terminal/src/mappings/keys.rs) *)

\* The text a terminal receives is a sequence of characters: a printable character
\* is the string of length one, a control character is named by its code, "x1b" for
\* ESC, "x09" for TAB and so on.
ESC == "x1b"
Chars(s) == [i \in 1..Len(s) |-> SubSeq(s, i, i)]
Esc(s) == <<ESC>> \o Chars(s)

\* TermMode flags the mappings look at; a mode is the set of its flags.
TermModeFlags == {"ALT_SCREEN", "APP_CURSOR"}

\* AlacModifiers::new
AlacModifiersNew(ks) ==
    LET m == ks.modifiers
        is(alt, control, shift, platform) ==
            m.alt = alt /\ m.control = control /\ m.shift = shift /\ m.platform = platform
    IN CASE is(FALSE, FALSE, FALSE, FALSE) -> "None"
         [] is(TRUE, FALSE, FALSE, FALSE) -> "Alt"
         [] is(FALSE, TRUE, FALSE, FALSE) -> "Ctrl"
         [] is(FALSE, FALSE, TRUE, FALSE) -> "Shift"
         [] is(FALSE, TRUE, TRUE, FALSE) -> "CtrlShift"
         [] OTHER -> "Other"

\* AlacModifiers::any
any(modifiers) == modifiers # "None"

\* a | b on u32
RECURSIVE BitOr(_, _)
BitOr(a, b) ==
    IF a = 0 THEN b
    ELSE IF b = 0 THEN a
    ELSE (IF a % 2 = 1 \/ b % 2 = 1 THEN 1 ELSE 0) + 2 * BitOr(a \div 2, b \div 2)

\* modifier_code with the bits of alt and control exchanged.
modifier_code_control_before_alt(ks) ==
    LET c1 == IF ks.modifiers.shift THEN BitOr(0, 1) ELSE 0
        c2 == IF ks.modifiers.alt THEN BitOr(c1, 4) ELSE c1
        c3 == IF ks.modifiers.control THEN BitOr(c2, 2) ELSE c2
    IN c3 + 1

\* modifier_code; the u32 holds at most 7 before the increment, so it never wraps.
modifier_code(ks) ==
    LET c1 == IF ks.modifiers.shift THEN BitOr(0, 1) ELSE 0
        c2 == IF ks.modifiers.alt THEN BitOr(c1, 2) ELSE c1
        c3 == IF ks.modifiers.control THEN BitOr(c2, 4) ELSE c2
    IN c3 + 1

\* format!("{}", n) of a u32: its decimal digits
RECURSIVE U32ToString(_)
U32ToString(n) ==
    IF n < 10 THEN CharAt("0123456789", n + 1)
    ELSE U32ToString(n \div 10) \o CharAt("0123456789", (n % 10) + 1)

\* format!("{:?}", key) of the derived Debug: the name of the variant, followed by
\* the position in parentheses for the variants that carry one.
KeyCodeDebug(key) ==
    IF key.pos = "NoPos" THEN key.code ELSE key.code \o "(" \o key.pos \o ")"

\* The arms of the first match of to_esc_str, in order:
\* <<key, AlacModifiers, guard on the mode, the text>>.
ManualBindings == <<
    <<"Tab", "None", "", <<"x09">>>>, <<"Escape", "None", "", <<"x1b">>>>,
    <<"Enter", "None", "", <<"x0d">>>>, <<"Enter", "Shift", "", <<"x0d">>>>,
    <<"Backspace", "None", "", <<"x7f">>>>, <<"Tab", "Shift", "", Esc("[Z")>>,
    <<"Backspace", "Ctrl", "", <<"x08">>>>, <<"Backspace", "Alt", "", <<"x1b", "x7f">>>>,
    <<"Backspace", "Shift", "", <<"x7f">>>>, <<"Space", "Ctrl", "", <<"x00">>>>,
    <<"Home", "Shift", "ALT_SCREEN", Esc("[1;2H")>>,
    <<"End", "Shift", "ALT_SCREEN", Esc("[1;2F")>>,
    <<"PageUp", "Shift", "ALT_SCREEN", Esc("[5;2~")>>,
    <<"PageDown", "Shift", "ALT_SCREEN", Esc("[6;2~")>>,
    <<"Home", "None", "APP_CURSOR", Esc("OH")>>,
    <<"Home", "None", "!APP_CURSOR", Esc("[H")>>,
    <<"End", "None", "APP_CURSOR", Esc("OF")>>,
    <<"End", "None", "!APP_CURSOR", Esc("[F")>>, <<"Up", "None", "APP_CURSOR", Esc("OA")>>,
    <<"Up", "None", "!APP_CURSOR", Esc("[A")>>,
    <<"Down", "None", "APP_CURSOR", Esc("OB")>>,
    <<"Down", "None", "!APP_CURSOR", Esc("[B")>>,
    <<"Right", "None", "APP_CURSOR", Esc("OC")>>,
    <<"Right", "None", "!APP_CURSOR", Esc("[C")>>,
    <<"Left", "None", "APP_CURSOR", Esc("OD")>>,
    <<"Left", "None", "!APP_CURSOR", Esc("[D")>>, <<"Backspace", "None", "", <<"x7f">>>>,
    <<"Insert", "None", "", Esc("[2~")>>, <<"Delete", "None", "", Esc("[3~")>>,
    <<"PageUp", "None", "", Esc("[5~")>>, <<"PageDown", "None", "", Esc("[6~")>>,
    <<"F1", "None", "", Esc("OP")>>, <<"F2", "None", "", Esc("OQ")>>,
    <<"F3", "None", "", Esc("OR")>>, <<"F4", "None", "", Esc("OS")>>,
    <<"F5", "None", "", Esc("[15~")>>, <<"F6", "None", "", Esc("[17~")>>,
    <<"F7", "None", "", Esc("[18~")>>, <<"F8", "None", "", Esc("[19~")>>,
    <<"F9", "None", "", Esc("[20~")>>, <<"F10", "None", "", Esc("[21~")>>,
    <<"F11", "None", "", Esc("[23~")>>, <<"F12", "None", "", Esc("[24~")>>,
    <<"F13", "None", "", Esc("[25~")>>, <<"F14", "None", "", Esc("[26~")>>,
    <<"F15", "None", "", Esc("[28~")>>, <<"F16", "None", "", Esc("[29~")>>,
    <<"F17", "None", "", Esc("[31~")>>, <<"F18", "None", "", Esc("[32~")>>,
    <<"F19", "None", "", Esc("[33~")>>, <<"F20", "None", "", Esc("[34~")>>,
    <<"A", "Ctrl", "", <<"x01">>>>, <<"A", "CtrlShift", "", <<"x01">>>>,
    <<"B", "Ctrl", "", <<"x02">>>>, <<"B", "CtrlShift", "", <<"x02">>>>,
    <<"C", "Ctrl", "", <<"x03">>>>, <<"C", "CtrlShift", "", <<"x03">>>>,
    <<"D", "Ctrl", "", <<"x04">>>>, <<"D", "CtrlShift", "", <<"x04">>>>,
    <<"E", "Ctrl", "", <<"x05">>>>, <<"E", "CtrlShift", "", <<"x05">>>>,
    <<"F", "Ctrl", "", <<"x06">>>>, <<"F", "CtrlShift", "", <<"x06">>>>,
    <<"G", "Ctrl", "", <<"x07">>>>, <<"G", "CtrlShift", "", <<"x07">>>>,
    <<"H", "Ctrl", "", <<"x08">>>>, <<"H", "CtrlShift", "", <<"x08">>>>,
    <<"I", "Ctrl", "", <<"x09">>>>, <<"I", "CtrlShift", "", <<"x09">>>>,
    <<"J", "Ctrl", "", <<"x0a">>>>, <<"J", "CtrlShift", "", <<"x0a">>>>,
    <<"K", "Ctrl", "", <<"x0b">>>>, <<"K", "CtrlShift", "", <<"x0b">>>>,
    <<"L", "Ctrl", "", <<"x0c">>>>, <<"L", "CtrlShift", "", <<"x0c">>>>,
    <<"M", "Ctrl", "", <<"x0d">>>>, <<"M", "CtrlShift", "", <<"x0d">>>>,
    <<"N", "Ctrl", "", <<"x0e">>>>, <<"N", "CtrlShift", "", <<"x0e">>>>,
    <<"O", "Ctrl", "", <<"x0f">>>>, <<"O", "CtrlShift", "", <<"x0f">>>>,
    <<"P", "Ctrl", "", <<"x10">>>>, <<"P", "CtrlShift", "", <<"x10">>>>,
    <<"Q", "Ctrl", "", <<"x11">>>>, <<"Q", "CtrlShift", "", <<"x11">>>>,
    <<"R", "Ctrl", "", <<"x12">>>>, <<"R", "CtrlShift", "", <<"x12">>>>,
    <<"S", "Ctrl", "", <<"x13">>>>, <<"S", "CtrlShift", "", <<"x13">>>>,
    <<"T", "Ctrl", "", <<"x14">>>>, <<"T", "CtrlShift", "", <<"x14">>>>,
    <<"U", "Ctrl", "", <<"x15">>>>, <<"U", "CtrlShift", "", <<"x15">>>>,
    <<"V", "Ctrl", "", <<"x16">>>>, <<"V", "CtrlShift", "", <<"x16">>>>,
    <<"W", "Ctrl", "", <<"x17">>>>, <<"W", "CtrlShift", "", <<"x17">>>>,
    <<"X", "Ctrl", "", <<"x18">>>>, <<"X", "CtrlShift", "", <<"x18">>>>,
    <<"Y", "Ctrl", "", <<"x19">>>>, <<"Y", "CtrlShift", "", <<"x19">>>>,
    <<"Z", "Ctrl", "", <<"x1a">>>>, <<"Z", "CtrlShift", "", <<"x1a">>>>,
    <<"LeftBracket", "Ctrl", "", <<"x1b">>>>, <<"Backslash", "Ctrl", "", <<"x1c">>>>,
    <<"RightBracket", "Ctrl", "", <<"x1d">>>>
>>

\* The guard of an arm of the first match.
ArmGuard(guard, mode) ==
    CASE guard = "" -> TRUE
      [] guard = "ALT_SCREEN" -> "ALT_SCREEN" \in mode
      [] guard = "APP_CURSOR" -> "APP_CURSOR" \in mode
      [] guard = "!APP_CURSOR" -> "APP_CURSOR" \notin mode

\* manual_esc_str: the text of the first arm that matches
manual_esc_str(ks, mode) ==
    LET modifiers == AlacModifiersNew(ks)
        hits == { i \in 1..Len(ManualBindings) :
                    /\ ks.key = Key(ManualBindings[i][1])
                    /\ modifiers = ManualBindings[i][2]
                    /\ ArmGuard(ManualBindings[i][3], mode) }
    IN IF hits = {} THEN None
       ELSE Some(ManualBindings[CHOOSE i \in hits : \A j \in hits : i <= j][4])

\* The arms of the second match that come before `_ if modifier_code == 2`:
\* <<key, the text before the modifier code, the text after it>>.
ModifiedBindings == {
    <<"Up", Esc("[1;"), Chars("A")>>, <<"Down", Esc("[1;"), Chars("B")>>,
    <<"Right", Esc("[1;"), Chars("C")>>, <<"Left", Esc("[1;"), Chars("D")>>,
    <<"F1", Esc("[1;"), Chars("P")>>, <<"F2", Esc("[1;"), Chars("Q")>>,
    <<"F3", Esc("[1;"), Chars("R")>>, <<"F4", Esc("[1;"), Chars("S")>>,
    <<"F5", Esc("[15;"), Chars("~")>>, <<"F6", Esc("[17;"), Chars("~")>>,
    <<"F7", Esc("[18;"), Chars("~")>>, <<"F8", Esc("[19;"), Chars("~")>>,
    <<"F9", Esc("[20;"), Chars("~")>>, <<"F10", Esc("[21;"), Chars("~")>>,
    <<"F11", Esc("[23;"), Chars("~")>>, <<"F12", Esc("[24;"), Chars("~")>>,
    <<"F13", Esc("[25;"), Chars("~")>>, <<"F14", Esc("[26;"), Chars("~")>>,
    <<"F15", Esc("[28;"), Chars("~")>>, <<"F16", Esc("[29;"), Chars("~")>>,
    <<"F17", Esc("[31;"), Chars("~")>>, <<"F18", Esc("[32;"), Chars("~")>>,
    <<"F19", Esc("[33;"), Chars("~")>>, <<"F20", Esc("[34;"), Chars("~")>>
}

\* The arms of the second match that come after `_ if modifier_code == 2`.
ModifiedUnlessShiftBindings == {
    <<"Insert", Esc("[2;"), Chars("~")>>, <<"PageUp", Esc("[5;"), Chars("~")>>,
    <<"PageDown", Esc("[6;"), Chars("~")>>, <<"End", Esc("[1;"), Chars("F")>>,
    <<"Home", Esc("[1;"), Chars("H")>>
}

\* format!(.., modifier_code) of the arm of the key in a table of the second match
ModifiedArm(table, ks) ==
    IF \E r \in table : ks.key = Key(r[1])
    THEN LET r == CHOOSE r \in table : ks.key = Key(r[1]) IN
         Some(r[2] \o Chars(U32ToString(modifier_code(ks))) \o r[3])
    ELSE None

\* modified_esc_str without the arm `_ if modifier_code == 2 => None`.
modified_esc_str_without_shift_arm(ks) ==
    IF ModifiedArm(ModifiedBindings, ks) # None THEN ModifiedArm(ModifiedBindings, ks)
    ELSE ModifiedArm(ModifiedUnlessShiftBindings, ks)

\* modified_esc_str: the second match of to_esc_str
modified_esc_str(ks) ==
    IF ModifiedArm(ModifiedBindings, ks) # None THEN ModifiedArm(ModifiedBindings, ks)
    ELSE IF modifier_code(ks) = 2 THEN None
    ELSE ModifiedArm(ModifiedUnlessShiftBindings, ks)

\* alt_meta_binding: ESC followed by the Debug form of the key
alt_meta_binding(ks, alt_is_meta) ==
    IF alt_is_meta /\ AlacModifiersNew(ks) = "Alt"
    THEN Some(<<ESC>> \o Chars(KeyCodeDebug(ks.key)))
    ELSE None

\* to_esc_str
to_esc_str(ks, mode, alt_is_meta) ==
    IF manual_esc_str(ks, mode) # None THEN manual_esc_str(ks, mode)
    ELSE IF any(AlacModifiersNew(ks)) /\ modified_esc_str(ks) # None THEN modified_esc_str(ks)
    ELSE IF alt_meta_binding(ks, alt_is_meta) # None THEN alt_meta_binding(ks, alt_is_meta)
    ELSE None

----------------------------------------------------------------------------
(* TermSpec: a keystroke text is written from modifier names and a key      *)
(* name, parsed, and handed to modifier_code and to to_esc_str under a      *)
(* terminal mode and an alt_is_meta setting.                                *)

ModifierNames == {"shift", "ctrl", "alt", "cmd", "fn"}

\* The characters ' ' to '~'
AsciiPrintable ==
    " !\"#$%&'()*+,-./0123456789:;<=>?@ABCDEFGHIJKLMNOPQRSTUVWXYZ[\\]^_"
        \o Backtick \o "abcdefghijklmnopqrstuvwxyz{|}~"

TermKeyNames ==
    {"pageup", "pagedown", "home", "end", "up", "f1", "f5", "insert", "enter", "tab",
     "backspace", "space"}

TermKeys == TermKeyNames \cup { CharAt(AsciiPrintable, i) : i \in 1..Len(AsciiPrintable) }

\* The text `shift-ctrl-alt-cmd-fn-key`, with the modifiers named in names only
KeystrokeText(names, key) ==
    (IF "shift" \in names THEN "shift-" ELSE "")
        \o (IF "ctrl" \in names THEN "ctrl-" ELSE "")
        \o (IF "alt" \in names THEN "alt-" ELSE "")
        \o (IF "cmd" \in names THEN "cmd-" ELSE "")
        \o (IF "fn" \in names THEN "fn-" ELSE "")
        \o key

TermInit ==
    /\ term_modifiers \in SUBSET ModifierNames
    /\ term_key \in TermKeys
    /\ term_keystroke = None
    /\ term_mode \in SUBSET TermModeFlags
    /\ term_alt_is_meta \in BOOLEAN
    /\ esc_str = None
    /\ modifier_code_result = None
    /\ EarlierIdle /\ MacIdle /\ HashIdle /\ WinIdle /\ DispatcherIdle

\* Keystroke::parse(&format!(..)).unwrap(): an Err ends the run.
TermParse ==
    /\ term_keystroke = None
    /\ term_keystroke' = Some(KeystrokeParse(KeystrokeText(term_modifiers, term_key)))
    /\ UNCHANGED <<term_modifiers, term_key, term_mode, term_alt_is_meta, esc_str,
                   modifier_code_result>>
    /\ UNCHANGED <<earlierVars, macVars, hashVars, winVars, dispatcherVars>>

\* modifier_code(&keystroke)
ModifierCode ==
    /\ term_keystroke # None /\ Unwrap(term_keystroke).ok
    /\ modifier_code_result = None
    /\ modifier_code_result' = Some(modifier_code(Unwrap(term_keystroke).val))
    /\ UNCHANGED <<term_modifiers, term_key, term_keystroke, term_mode, term_alt_is_meta,
                   esc_str>>
    /\ UNCHANGED <<earlierVars, macVars, hashVars, winVars, dispatcherVars>>

\* to_esc_str(&keystroke, &mode, alt_is_meta)
ToEscStr ==
    /\ term_keystroke # None /\ Unwrap(term_keystroke).ok
    /\ esc_str = None
    /\ esc_str' = Some(to_esc_str(Unwrap(term_keystroke).val, term_mode, term_alt_is_meta))
    /\ UNCHANGED <<term_modifiers, term_key, term_keystroke, term_mode, term_alt_is_meta,
                   modifier_code_result>>
    /\ UNCHANGED <<earlierVars, macVars, hashVars, winVars, dispatcherVars>>

TermNext ==
    \/ TermParse
    \/ ModifierCode
    \/ ToEscStr

TermSpec == TermInit /\ [][TermNext]_vars

----------------------------------------------------------------------------
(* Properties of the terminal key mappings (TermSpec) *)

Bit(flag) == IF flag THEN 1 ELSE 0

C24_AltIsMetaSendsEscThenChar ==
    (/\ esc_str # None
     /\ term_modifiers = {"alt"}
     /\ Len(term_key) = 1
     /\ term_mode = {}
     /\ term_alt_is_meta)
        => Unwrap(esc_str) = Some(<<ESC, term_key>>)

ShiftOnly == [NoModifiers EXCEPT !.shift = TRUE]

\* What the terminal is sent for a scroll key with shift in the alternate screen.
ShiftScrollText(key) ==
    CASE key = Key("PageUp") -> Esc("[5;2~")
      [] key = Key("PageDown") -> Esc("[6;2~")
      [] key = Key("Home") -> Esc("[1;2H")
      [] key = Key("End") -> Esc("[1;2F")

\* C25: with shift as the only modifier, to_esc_str returns None for PageUp,
\* PageDown, Home and End when the mode does not contain ALT_SCREEN and
\* ESC[5;2~, ESC[6;2~, ESC[1;2H, ESC[1;2F when it does; without any modifier PageUp
\* and PageDown return ESC[5~ and ESC[6~ in every mode.
C25_ScrollKeys ==
    esc_str # None =>
        LET ks == Unwrap(term_keystroke).val IN
        /\ (ks.modifiers = ShiftOnly
              /\ ks.key \in {Key("PageUp"), Key("PageDown"), Key("Home"), Key("End")})
             => Unwrap(esc_str) = IF "ALT_SCREEN" \in term_mode
                                  THEN Some(ShiftScrollText(ks.key))
                                  ELSE None
        /\ (ks.modifiers = NoModifiers /\ ks.key = Key("PageUp"))
             => Unwrap(esc_str) = Some(Esc("[5~"))
        /\ (ks.modifiers = NoModifiers /\ ks.key = Key("PageDown"))
             => Unwrap(esc_str) = Some(Esc("[6~"))

\* to_esc_str has returned None for `shift-pageup` outside the alternate screen.
C25_Witness ==
    /\ term_modifiers = {"shift"}
    /\ term_key = "pageup"
    /\ term_mode = {"APP_CURSOR"}
    /\ esc_str = Some(None)
    /\ Unwrap(term_keystroke).val.key = Key("PageUp")

----------------------------------------------------------------------------
(* A chord does not stay pending (Spec) *)

\* C26: as keystrokes are typed one at a time and every binding is matched anew,
\* a binding that answered None answers None for every longer typed sequence, a
\* binding that answered Some(false) answers None from then on, and Some(true) is
\* answered for non-empty typed sequences shorter than the chord only, at most
\* chord length - 1 of them.
C26_ChordNotPendingForever ==
    /\ [](\A i \in 1..Len(keymap) :
            (results[i] = Some(TRUE) /\ typed # << >>)
                => Len(typed) <= Len(keymap[i].keystrokes) - 1)
    /\ [][typed' # typed =>
            /\ Len(typed') = Len(typed) + 1
            /\ \A i \in 1..Len(keymap) :
                 (results[i] = None \/ results[i] = Some(FALSE)) => results'[i] = None]_vars

\* Three keystrokes have been typed at a two-keystroke chord: the first two were
\* those of the chord, so the binding was pending, then matched, and answers None.
C26_Witness ==
    /\ Len(typed) = 3
    /\ Len(keymap) > 0
    /\ Len(keymap[1].keystrokes) = 2
    /\ match_keystrokes(keymap[1], SubSeq(typed, 1, 1)) = Some(TRUE)
    /\ match_keystrokes(keymap[1], SubSeq(typed, 1, 2)) = Some(FALSE)
    /\ results[1] = None

----------------------------------------------------------------------------
(* Hash and equality of key codes (keycodes.rs, keyboard_mapper.rs) *)

\* impl Hash for KeyPosition: the integer handed to the hasher
KeyPositionHash(position) ==
    CASE position = "Any" -> 0
      [] position = "Left" -> 1
      [] position = "Right" -> 2

\* #[derive(Hash)] on the key code: what a key code feeds a hasher, the variant and
\* then the hash of its position when it carries one. A hasher answers with the same
\* hash for the same feed, and with another hash for another feed unless it collides.
KeyCodeHash(key) ==
    [variant |-> key.code,
     fields |-> IF key.pos = "NoPos" THEN << >> ELSE <<KeyPositionHash(key.pos)>>]

\* HashMap::get: the entry whose key has the hash of the key asked for and equals it
HashMapGet(map, key) ==
    LET hits == { k \in DOMAIN map : KeyCodeHash(k) = KeyCodeHash(key) /\ KeyCodeEq(k, key) }
    IN IF hits = {} THEN None ELSE Some(map[CHOOSE k \in hits : TRUE])

\* KeyboardMapper::code_to_char
CodeToCharGet(map, key) == HashMapGet(map, key)

----------------------------------------------------------------------------
(* HashSpec: two key codes are compared, hashed and looked up in the        *)
(* code_to_char map that KeyboardMapper::new built.                         *)

\* Key codes of ALL_CODES the model follows, and what the layout types for them.
MappedCodes == {Key("A"), Key("Digital1"), Key("Semicolon")}
LayoutChars == {"a", "1"}

HashKeyCodes ==
    MappedCodes \cup {Key("Function"), Unknown}
        \cup { KeyAt(name, position) :
                 name \in {"Shift", "Control", "Alt", "Platform"}, position \in KeyPosition }

\* KeyboardMapper::new: a code of ALL_CODES is stored with what the layout types
\* for it without modifiers, when that is not empty.
HashInit ==
    /\ hash_self \in { Some(k) : k \in HashKeyCodes }
    /\ hash_other \in { Some(k) : k \in HashKeyCodes }
    /\ \E codes \in SUBSET MappedCodes : code_to_char \in [codes -> LayoutChars]
    /\ eq_result = None
    /\ hash_result = None
    /\ char_result = None
    /\ EarlierIdle /\ MacIdle /\ TermIdle /\ WinIdle /\ DispatcherIdle

\* hash_self == hash_other
KeyCodeCompare ==
    /\ eq_result = None
    /\ eq_result' = Some(KeyCodeEq(Unwrap(hash_self), Unwrap(hash_other)))
    /\ UNCHANGED <<hash_self, hash_other, code_to_char, hash_result, char_result>>
    /\ UNCHANGED <<earlierVars, macVars, termVars, winVars, dispatcherVars>>

\* Both key codes are hashed.
KeyCodeHashBoth ==
    /\ hash_result = None
    /\ hash_result' = Some(<<KeyCodeHash(Unwrap(hash_self)), KeyCodeHash(Unwrap(hash_other))>>)
    /\ UNCHANGED <<hash_self, hash_other, code_to_char, eq_result, char_result>>
    /\ UNCHANGED <<earlierVars, macVars, termVars, winVars, dispatcherVars>>

\* code_to_char is called for both key codes.
CodeToChar ==
    /\ char_result = None
    /\ char_result' = Some(<<CodeToCharGet(code_to_char, Unwrap(hash_self)),
                             CodeToCharGet(code_to_char, Unwrap(hash_other))>>)
    /\ UNCHANGED <<hash_self, hash_other, code_to_char, eq_result, hash_result>>
    /\ UNCHANGED <<earlierVars, macVars, termVars, winVars, dispatcherVars>>

HashNext ==
    \/ KeyCodeCompare
    \/ KeyCodeHashBoth
    \/ CodeToChar

HashSpec == HashInit /\ [][HashNext]_vars

----------------------------------------------------------------------------
(* Properties of the hash of key codes (HashSpec) *)

\* C27: Hash is consistent with equality for key codes: two key codes that compare
\* equal with == feed a hasher the same, so that they have the same hash and
\* code_to_char finds the same entry for both.
C27_HashConsistentWithEq ==
    (eq_result = Some(TRUE)) =>
        /\ hash_result # None => Unwrap(hash_result)[1] = Unwrap(hash_result)[2]
        /\ char_result # None => Unwrap(char_result)[1] = Unwrap(char_result)[2]

\* Two different key codes of the map have been compared, hashed and looked up.
C27_Witness ==
    /\ eq_result = Some(FALSE)
    /\ hash_result # None
    /\ char_result # None
    /\ Unwrap(char_result)[1] # None
    /\ Unwrap(char_result)[2] # None

----------------------------------------------------------------------------
(* Windows message handlers (windows/events.rs) *)

\* Option::take with a clone in its place: the slot keeps what it holds.
take_leaves_value(slot) == [taken |-> slot, left |-> slot]

\* Option::take on a slot of the window state: what is taken, what is left
take(slot) == [taken |-> slot, left |-> None]

\* parse_char_msg: the UTF-16 unit of wparam as a String, None for a surrogate
\* (char::from_u32 fails) and for a control character
parse_char_msg(wparam) ==
    IF wparam >= 55296 /\ wparam <= 57343 THEN None
    ELSE IF wparam < 32 \/ (wparam >= 127 /\ wparam <= 159) THEN None
    ELSE Some(CharAt(AsciiPrintable, wparam - 31))

\* handle_char_msg that does not look at last_keydown_handled.
handle_char_msg_ignores_keydown(handled, handler, wparam) ==
    IF parse_char_msg(wparam) = None THEN [inserted |-> None, result |-> 1]
    ELSE IF take(handler).taken = None THEN [inserted |-> None, result |-> 0]
    ELSE [inserted |-> parse_char_msg(wparam), result |-> 0]

\* handle_char_msg: handled is state.last_keydown_handled, handler is the
\* state.input_handler slot; inserted is the text given to replace_text_in_range,
\* result the value returned to the window procedure.
handle_char_msg(handled, handler, wparam) ==
    IF handled THEN [inserted |-> None, result |-> 0]
    ELSE IF parse_char_msg(wparam) = None THEN [inserted |-> None, result |-> 1]
    ELSE IF take(handler).taken = None THEN [inserted |-> None, result |-> 0]
    ELSE [inserted |-> parse_char_msg(wparam), result |-> 0]

----------------------------------------------------------------------------
(* WinSpec: one window receives key-down, key-up, mouse-down and character  *)
(* messages. A message arrives when no handler runs, or re-entrantly while  *)
(* the input callback of an earlier message is executing.                   *)

MaxMessages == 3   \* messages one run receives

CallbackMessages == {"WM_KEYDOWN", "WM_KEYUP", "WM_LBUTTONDOWN"}

\* wparam of WM_CHAR: `a`, TAB, a high surrogate
CharUnits == {97, 9, 55357}

MessagesBegun == Len(msg_log) + Len(call_stack)

\* The window is created with or without an input callback and a text input
\* handler; last_keydown_handled starts as the window's constructor sets it.
WinInit ==
    /\ callbacks_input \in {None, Some("callback")}
    /\ input_handler \in {None, Some("handler")}
    /\ last_keydown_handled \in BOOLEAN
    /\ call_stack = << >>
    /\ inserted_text = << >>
    /\ msg_log = << >>
    /\ EarlierIdle /\ MacIdle /\ TermIdle /\ HashIdle /\ DispatcherIdle

\* A message of CallbackMessages arrives: the wrapper takes the callback out of its
\* slot and calls it; with an empty slot `take()?` returns None at once.
Dispatch(msg) ==
    /\ MessagesBegun < MaxMessages
    /\ LET slot == take(callbacks_input) IN
       IF slot.taken = None
       THEN /\ msg_log' = Append(msg_log,
                [msg |-> msg, depth |-> Len(call_stack), delivered |-> FALSE,
                 handled |-> FALSE, before |-> callbacks_input, after |-> callbacks_input,
                 wparam |-> 0, inserted |-> None])
            /\ UNCHANGED <<callbacks_input, call_stack>>
       ELSE /\ callbacks_input' = slot.left
            /\ call_stack' = Append(call_stack,
                [msg |-> msg, handler |-> Unwrap(slot.taken), before |-> callbacks_input])
            /\ UNCHANGED msg_log
    /\ UNCHANGED <<input_handler, last_keydown_handled, inserted_text>>
    /\ UNCHANGED <<earlierVars, macVars, termVars, hashVars, dispatcherVars>>

\* The input callback of the innermost dispatch returns: the wrapper puts the
\* callback back, and handle_keydown_msg records whether it handled the event.
CallbackReturns(propagate) ==
    /\ call_stack # << >>
    /\ LET frame == call_stack[Len(call_stack)]
           handled == ~propagate
       IN /\ callbacks_input' = Some(frame.handler)
          /\ last_keydown_handled' =
                IF frame.msg = "WM_KEYDOWN" THEN handled ELSE last_keydown_handled
          /\ call_stack' = SubSeq(call_stack, 1, Len(call_stack) - 1)
          /\ msg_log' = Append(msg_log,
                [msg |-> frame.msg, depth |-> Len(call_stack) - 1, delivered |-> TRUE,
                 handled |-> handled, before |-> frame.before, after |-> callbacks_input',
                 wparam |-> 0, inserted |-> None])
    /\ UNCHANGED <<input_handler, inserted_text>>
    /\ UNCHANGED <<earlierVars, macVars, termVars, hashVars, dispatcherVars>>

\* A WM_CHAR message arrives.
Char(wparam) ==
    /\ MessagesBegun < MaxMessages
    /\ LET r == handle_char_msg(last_keydown_handled, input_handler, wparam) IN
       /\ inserted_text' =
            IF r.inserted = None THEN inserted_text
            ELSE Append(inserted_text, Unwrap(r.inserted))
       /\ msg_log' = Append(msg_log,
            [msg |-> "WM_CHAR", depth |-> Len(call_stack), delivered |-> FALSE,
             handled |-> FALSE, before |-> callbacks_input, after |-> callbacks_input,
             wparam |-> wparam, inserted |-> r.inserted])
    /\ UNCHANGED <<callbacks_input, input_handler, last_keydown_handled, call_stack>>
    /\ UNCHANGED <<earlierVars, macVars, termVars, hashVars, dispatcherVars>>

WinNext ==
    \/ \E msg \in CallbackMessages : Dispatch(msg)
    \/ \E propagate \in BOOLEAN : CallbackReturns(propagate)
    \/ \E wparam \in CharUnits : Char(wparam)

WinSpec == WinInit /\ [][WinNext]_vars

----------------------------------------------------------------------------
(* Properties of the Windows message handlers (WinSpec) *)

\* The WM_KEYDOWN messages delivered to the input callback that returned before
\* the i-th message of the log did.
KeydownsBefore(i) ==
    { j \in 1..(i - 1) : msg_log[j].msg = "WM_KEYDOWN" /\ msg_log[j].delivered }

\* The most recent of them was handled by the callback.
KeydownHandledBefore(i) ==
    /\ KeydownsBefore(i) # {}
    /\ msg_log[CHOOSE j \in KeydownsBefore(i) : \A k \in KeydownsBefore(i) : k <= j].handled

\* C28: a WM_CHAR message inserts text through the input handler only if the most
\* recent WM_KEYDOWN delivered to the input callback was not handled by it; when
\* that key-down was handled, the WM_CHAR is consumed without inserting text.
C28_CharAfterHandledKeydownInsertsNothing ==
    \A i \in 1..Len(msg_log) :
        msg_log[i].msg = "WM_CHAR" =>
            /\ msg_log[i].inserted # None => ~KeydownHandledBefore(i)
            /\ KeydownHandledBefore(i) => msg_log[i].inserted = None

\* A key-down was handled and the two WM_CHAR messages of the letter a that
\* followed inserted nothing although a text input handler is present.
C28_Witness ==
    /\ Len(msg_log) = 3
    /\ input_handler # None
    /\ msg_log[1].msg = "WM_KEYDOWN" /\ msg_log[1].delivered /\ msg_log[1].handled
    /\ msg_log[2].msg = "WM_CHAR" /\ msg_log[2].wparam = 97 /\ msg_log[2].inserted = None
    /\ msg_log[3].msg = "WM_CHAR" /\ msg_log[3].wparam = 97 /\ msg_log[3].inserted = None
    /\ inserted_text = << >>

\* A key-down was left unhandled and the WM_CHAR after it inserted its text.
C28_WitnessInserted ==
    /\ Len(msg_log) = 2
    /\ msg_log[1].msg = "WM_KEYDOWN" /\ msg_log[1].delivered /\ ~msg_log[1].handled
    /\ msg_log[2].msg = "WM_CHAR" /\ msg_log[2].inserted = Some("a")
    /\ inserted_text = <<"a">>

\* C29: while the input callback is executing the callback slot is empty, an
\* event dispatched re-entrantly during that call is not passed to the callback and
\* is reported as unhandled, and when the outer dispatch returns the slot holds the
\* callback that was registered before the dispatch began.
C29_CallbackSlotEmptyDuringCall ==
    /\ call_stack # << >> => callbacks_input = None
    /\ Len(call_stack) <= 1
    /\ \A i \in 1..Len(msg_log) :
         /\ (msg_log[i].depth > 0 /\ msg_log[i].msg \in CallbackMessages)
               => ~msg_log[i].delivered /\ ~msg_log[i].handled
         /\ msg_log[i].delivered
               => msg_log[i].after = msg_log[i].before /\ msg_log[i].after # None

\* A key-up arrived while the callback was executing for a key-down and was not
\* delivered; the key-down's dispatch then returned and the slot holds the callback.
C29_Witness ==
    /\ Len(msg_log) = 2
    /\ msg_log[1].msg = "WM_KEYUP" /\ msg_log[1].depth = 1 /\ ~msg_log[1].delivered
    /\ msg_log[2].msg = "WM_KEYDOWN" /\ msg_log[2].depth = 0 /\ msg_log[2].delivered
    /\ call_stack = << >>
    /\ callbacks_input = Some("callback")

----------------------------------------------------------------------------
(* WindowsDispatcher::dispatch_after (windows/dispatcher.rs) *)

\* DelayedTask::new: the runnable in its mutex, the handle 0
DelayedTaskNew == [runnable |-> Some(TRUE), raw_timer_handle |-> 0]

----------------------------------------------------------------------------
(* DispatcherSpec: dispatch_after is called for each task; the thread that  *)
(* calls it, the timer thread and the pool thread of a task run one         *)
(* statement at a time, in any order the operating system allows.           *)

MaxTasks == 2   \* tasks dispatched in one run

Tasks == 1..MaxTasks

\* duration.as_millis() of the calls: no delay, a delay
Durations == {0, 5}

\* Handles CreateTimerQueueTimer hands out
TimerHandles == {16, 32}

DispatcherInit ==
    /\ dispatch_pc = [t \in Tasks |-> "idle"]
    /\ duration_ms = [t \in Tasks |-> 0]
    /\ timer_handle = [t \in Tasks |-> 0]
    /\ raw_timer_handle = [t \in Tasks |-> 0]
    /\ runnable = [t \in Tasks |-> None]
    /\ timer_pc = [t \in Tasks |-> "idle"]
    /\ run_count = [t \in Tasks |-> 0]
    /\ deleted_timer = [t \in Tasks |-> None]
    /\ EarlierIdle /\ MacIdle /\ TermIdle /\ HashIdle /\ WinIdle

\* dispatch_after with a duration under one millisecond: dispatch_on_threadpool
\* submits the runnable to the pool, or returns when the work cannot be created.
DispatchNow(t, created) ==
    /\ dispatch_pc[t] = "idle"
    /\ dispatch_pc' = [dispatch_pc EXCEPT ![t] = "returned"]
    /\ duration_ms' = [duration_ms EXCEPT ![t] = 0]
    /\ runnable' = [runnable EXCEPT ![t] = Some(TRUE)]
    /\ timer_pc' = [timer_pc EXCEPT ![t] = IF created THEN "submitted" ELSE "idle"]
    /\ UNCHANGED <<timer_handle, raw_timer_handle, run_count, deleted_timer>>
    /\ UNCHANGED <<earlierVars, macVars, termVars, hashVars, winVars>>

\* threadpool_runner: the pool thread runs the runnable.
ThreadpoolRunner(t) ==
    /\ timer_pc[t] = "submitted"
    /\ runnable' = [runnable EXCEPT ![t] = None]
    /\ run_count' = [run_count EXCEPT ![t] = @ + 1]
    /\ timer_pc' = [timer_pc EXCEPT ![t] = "done"]
    /\ UNCHANGED <<dispatch_pc, duration_ms, timer_handle, raw_timer_handle, deleted_timer>>
    /\ UNCHANGED <<earlierVars, macVars, termVars, hashVars, winVars>>

\* dispatch_after with a delay, up to the return of CreateTimerQueueTimer: the task
\* is built, and the timer is created with handle h, or not created (h = 0) and the
\* error logged.
CreateTimer(t, duration, h) ==
    /\ dispatch_pc[t] = "idle"
    /\ duration > 0
    /\ dispatch_pc' = [dispatch_pc EXCEPT ![t] = "created"]
    /\ duration_ms' = [duration_ms EXCEPT ![t] = duration]
    /\ runnable' = [runnable EXCEPT ![t] = DelayedTaskNew.runnable]
    /\ raw_timer_handle' = [raw_timer_handle EXCEPT ![t] = DelayedTaskNew.raw_timer_handle]
    /\ timer_handle' = [timer_handle EXCEPT ![t] = h]
    /\ timer_pc' = [timer_pc EXCEPT ![t] = IF h # 0 THEN "armed" ELSE "idle"]
    /\ UNCHANGED <<run_count, deleted_timer>>
    /\ UNCHANGED <<earlierVars, macVars, termVars, hashVars, winVars>>

\* dispatch_after: task.raw_timer_handle.store(handle), then the call returns.
StoreHandle(t) ==
    /\ dispatch_pc[t] = "created"
    /\ raw_timer_handle' = [raw_timer_handle EXCEPT ![t] = timer_handle[t]]
    /\ dispatch_pc' = [dispatch_pc EXCEPT ![t] = "returned"]
    /\ UNCHANGED <<duration_ms, timer_handle, runnable, timer_pc, run_count, deleted_timer>>
    /\ UNCHANGED <<earlierVars, macVars, termVars, hashVars, winVars>>

\* timer_queue_runner, the timer has expired: the runnable is taken and run.
TimerRun(t) ==
    /\ timer_pc[t] = "armed"
    /\ runnable[t] # None
    /\ runnable' = [runnable EXCEPT ![t] = None]
    /\ run_count' = [run_count EXCEPT ![t] = @ + 1]
    /\ timer_pc' = [timer_pc EXCEPT ![t] = "ran"]
    /\ UNCHANGED <<dispatch_pc, duration_ms, timer_handle, raw_timer_handle, deleted_timer>>
    /\ UNCHANGED <<earlierVars, macVars, termVars, hashVars, winVars>>

\* timer_queue_runner: raw_timer_handle is loaded and the timer of that handle
\* deleted.
TimerDelete(t) ==
    /\ timer_pc[t] = "ran"
    /\ deleted_timer' = [deleted_timer EXCEPT ![t] = Some(raw_timer_handle[t])]
    /\ timer_pc' = [timer_pc EXCEPT ![t] = "done"]
    /\ UNCHANGED <<dispatch_pc, duration_ms, timer_handle, raw_timer_handle, runnable,
                   run_count>>
    /\ UNCHANGED <<earlierVars, macVars, termVars, hashVars, winVars>>

DispatcherNext ==
    \/ \E t \in Tasks, created \in BOOLEAN : DispatchNow(t, created)
    \/ \E t \in Tasks : ThreadpoolRunner(t)
    \/ \E t \in Tasks, duration \in Durations, h \in TimerHandles \cup {0} :
          CreateTimer(t, duration, h)
    \/ \E t \in Tasks : StoreHandle(t)
    \/ \E t \in Tasks : TimerRun(t)
    \/ \E t \in Tasks : TimerDelete(t)

DispatcherSpec == DispatcherInit /\ [][DispatcherNext]_vars

----------------------------------------------------------------------------
(* Properties of dispatch_after (DispatcherSpec) *)

\* C30: for dispatch_after with a non-zero delay, under every interleaving of the
\* dispatching thread and the timer thread, the timer callback runs the runnable
\* once, and when it deletes the timer raw_timer_handle holds the handle of the
\* timer created for the task, never the initial value 0.
C30_TimerDeletedWithItsHandle ==
    \A t \in Tasks :
        duration_ms[t] > 0 =>
            /\ run_count[t] <= 1
            /\ timer_pc[t] \in {"ran", "done"} => run_count[t] = 1
            /\ deleted_timer[t] # None =>
                 /\ Unwrap(deleted_timer[t]) = timer_handle[t]
                 /\ Unwrap(deleted_timer[t]) # 0

\* The timer of a task has run its runnable and deleted itself with the handle
\* dispatch_after had stored by then.
C30_Witness ==
    \E t \in Tasks :
        /\ duration_ms[t] > 0
        /\ dispatch_pc[t] = "returned"
        /\ run_count[t] = 1
        /\ deleted_timer[t] = Some(timer_handle[t])
        /\ timer_handle[t] # 0

====
